---- MODULE Spec2Model ----
(***************************************************************************)
(* A model of the tfdeploy core: the graph model (RawModel::new and its    *)
(* accessors), the evaluation order, the Pack operator (eval and inference *)
(* rules), the legacy LocalPatch operators, the Patch-based MaxPool and    *)
(* Conv, the Identity operator and the ONNX operator registry.             *)
(*                                                                         *)
(* Rust vectors are 0-based; TLA+ sequences are 1-based: the node at       *)
(* vector position p is nodes[p + 1].                                      *)
(***************************************************************************)
EXTENDS Integers, Sequences, FiniteSets, TLC

VARIABLES
    phase,      \* which step of the scenario has been taken
    nodes,      \* the Vec<Node> handed to RawModel::new
    index,      \* the HashMap<String, usize> handed to RawModel::new
    model,      \* the constructed RawModel (nodes, nodes_by_name)
    targets,    \* the targets handed to eval_order_for_nodes
    order,      \* the result of eval_order_for_nodes
    pack,       \* the Pack operator (t, n, axis)
    pinputs,    \* the tensors handed to Pack
    pres,       \* the result of Pack::eval
    pinf,       \* the result of inference with Pack::rules
    lp,         \* the legacy LocalPatch (padding, strides)
    lfilter,    \* the filter (rows, cols) of the legacy operator
    lshape,     \* the shape of the data handed to the legacy operator
    lgeo,       \* the result of adjusted_dim and padding on that shape
    ldata,      \* the tensor handed to the legacy pooling operator
    lout,       \* the result of the legacy pooling operator
    mp,         \* the MaxPool operator (data_fmt, kernel_shape, padding, strides)
    mpshape,    \* the shape of MaxPool's input
    mpinf,      \* the result of inference with MaxPool::rules
    mpinput,    \* the tensor handed to MaxPool::eval
    mpres,      \* the result of MaxPool::eval
    conv,       \* the Conv operator
    cfacts,     \* the input facts handed to inference with Conv::rules
    cinf,       \* the result of inference with Conv::rules
    cinputs,    \* the tensors handed to Conv::eval
    cres,       \* the result of Conv::eval
    idin,       \* the tensors handed to Identity::eval
    idfacts,    \* the facts handed to inference with Identity::rules
    idinf,      \* the result of inference with Identity::rules
    idres,      \* the result of Identity::eval
    protos,     \* the NodeProtos handed to OpBuilder::build so far
    built,      \* the results of OpBuilder::build, one per NodeProto
    ndef,       \* the NodeDef handed to LocalPatch::build
    lres,       \* the result of LocalPatch::build
    stin,       \* the step values handed to Identity::step so far
    stbuf,      \* the OpBuffer of the Identity node
    stout       \* the results of Identity::step, one per step

graphVars == <<nodes, index, model>>
orderVars == <<targets, order>>
packVars == <<pack, pinputs, pres, pinf>>
localVars == <<lp, lfilter, lshape, lgeo, ldata, lout>>
poolVars == <<mp, mpshape, mpinf, mpinput, mpres>>
convVars == <<conv, cfacts, cinf, cinputs, cres>>
identVars == <<idin, idfacts, idinf, idres>>
builderVars == <<protos, built>>
defVars == <<ndef, lres>>
stepVars == <<stin, stbuf, stout>>
opVars == <<localVars, poolVars, convVars, identVars, builderVars, defVars, stepVars>>
vars == <<phase, graphVars, orderVars, packVars, opVars>>

\* What each scenario leaves alone.
notGraphVars == <<orderVars, packVars, opVars>>
notOrderVars == <<index, model, packVars, opVars>>
notPackVars == <<graphVars, orderVars, opVars>>
notLocalVars ==
    <<graphVars, orderVars, packVars, poolVars, convVars, identVars, builderVars,
      defVars, stepVars>>
notPoolVars ==
    <<graphVars, orderVars, packVars, localVars, convVars, identVars, builderVars,
      defVars, stepVars>>
notConvVars ==
    <<graphVars, orderVars, packVars, localVars, poolVars, identVars, builderVars,
      defVars, stepVars>>
notIdentVars ==
    <<graphVars, orderVars, packVars, localVars, poolVars, convVars, builderVars,
      defVars, stepVars>>
notBuilderVars ==
    <<graphVars, orderVars, packVars, localVars, poolVars, convVars, identVars,
      defVars, stepVars>>
notDefVars ==
    <<graphVars, orderVars, packVars, localVars, poolVars, convVars, identVars,
      builderVars, stepVars>>
notStepVars ==
    <<graphVars, orderVars, packVars, localVars, poolVars, convVars, identVars,
      builderVars, defVars>>

(***************************************************************************)
(* Bounds of the model.                                                    *)
(***************************************************************************)
MaxNodes == 3
MaxInputs == 2
MaxSlot == 1
MaxTargets == 2
MaxEdges == 3
MaxK == 3
MaxRank == 2
MaxDim == 2
MaxVal == 1
MaxCells == 4
MaxStride == 2
MaxKernel == 3
MaxExtent == 4
MaxSpatial == 2
MaxPatchKernel == 2
MaxConvSpatial == 2
MaxDilation == 2
MaxBuilt == 2
MaxStridesLen == 4
MaxSteps == 3

(***************************************************************************)
(* Sequence helpers.                                                       *)
(***************************************************************************)
Range(s) == {s[i] : i \in 1..Len(s)}

SeqsUpTo(S, n) == UNION {[1..k -> S] : k \in 0..n}

RECURSIVE Sum(_)
Sum(s) == IF s = <<>> THEN 0 ELSE Head(s) + Sum(Tail(s))

\* All orders in which a finite set can be iterated.
Perms(S) == {p \in [1..Cardinality(S) -> S] : Range(p) = S}

(***************************************************************************)
(* The graph model: src/src/model/mod.rs                                   *)
(***************************************************************************)
OutletId(n, s) == [node |-> n, slot |-> s]

\* The name of the node a loader puts at vector position p.
NodeName(p) == "n" \o ToString(p)

\* Node: id, name, op_name, inputs. The owned operator instance is kept as
\* the number of output slots it declares (nout).
Node(i, nm, op, ins, no) ==
    [id |-> i, name |-> nm, op_name |-> op, inputs |-> ins, nout |-> no]

NoModel == [nodes |-> <<>>, nodes_by_name |-> <<>>]

\* The outlets a node list may reference: slots 0..MaxSlot of positions
\* 0..MaxNodes-1 (a position >= Len(nodes) is a dangling reference).
RefOutlets == {OutletId(n, s) : n \in 0..(MaxNodes - 1), s \in 0..MaxSlot}

\* The nodes a loader may put at position p: a Source has no input and one
\* output, a Sink one input and no output, any other operator up to
\* MaxInputs inputs and 1..MaxSlot+1 outputs.
NewNodes(p) ==
    {Node(p, NodeName(p), "Source", <<>>, 1)}
    \cup {Node(p, NodeName(p), "Sink", <<o>>, 0) : o \in RefOutlets}
    \cup {Node(p, NodeName(p), "Op", ins, no) :
            ins \in SeqsUpTo(RefOutlets, MaxInputs), no \in 1..(MaxSlot + 1)}

\* format!("Sink-{}", id)
SinkName(id) == "Sink-" \o ToString(id)

\* A slip: the id read after the push instead of before it.
SinkNodeIdAfterPush(id, missing) ==
    Node(id + 1, SinkName(id + 1), "Sink", <<missing>>, 0)

\* The Node pushed by the loop body for the outlet `missing`.
SinkNode(id, missing) == Node(id, SinkName(id), "Sink", <<missing>>, 0)

\* let outlets: HashSet<OutletId> = non-Sink nodes' (id, 0)
Outlets(ns) ==
    {OutletId(ns[i].id, 0) : i \in {j \in 1..Len(ns) : ns[j].op_name # "Sink"}}

\* let used: HashSet<OutletId> = every input of every node
Used(ns) == UNION {Range(ns[i].inputs) : i \in 1..Len(ns)}

\* A slip: the unconsumed outlets taken to be all of `outlets`.
MissingNoDifference(ns) == Outlets(ns)

\* outlets.difference(&used)
Missing(ns) == Outlets(ns) \ Used(ns)

\* The for loop: one push per element of the iteration order `ord`, each
\* with id = nodes.len() at the time of the push.
RECURSIVE PushSinks(_, _)
PushSinks(ns, ord) ==
    IF ord = <<>> THEN ns
    ELSE PushSinks(Append(ns, SinkNode(Len(ns), Head(ord))), Tail(ord))

\* A slip: the Sinks put in front of the given nodes.
RawModelNewSinksFirst(ns, by_name, ord) ==
    LET all == PushSinks(ns, ord)
    IN  [nodes |-> SubSeq(all, Len(ns) + 1, Len(all)) \o ns, nodes_by_name |-> by_name]

\* RawModel::new: the HashSet difference is iterated in an unspecified
\* order (`ord`); nodes_by_name is stored as given.
RawModelNew(ns, by_name, ord) ==
    [nodes |-> PushSinks(ns, ord), nodes_by_name |-> by_name]

\* RawModel::node_by_name: Err when the name is not a key of the index.
NodeByName(m, name) ==
    IF name \in DOMAIN m.nodes_by_name
    THEN [ok |-> TRUE, node |-> m.nodes[m.nodes_by_name[name] + 1]]
    ELSE [ok |-> FALSE, node |-> "Node named " \o name \o " not found"]

(***************************************************************************)
(* The graph scenario: a loader pushes nodes (id = position, unique names, *)
(* the name index kept in step), then calls RawModel::new.                 *)
(***************************************************************************)
NoOrder == [ok |-> FALSE, order |-> <<>>]

NoPack == [t |-> "I32", n |-> 0, axis |-> 0]
NoResult == [kind |-> "None", out |-> <<>>]
NoFact == [kind |-> "None", dt |-> "?", shape |-> <<>>]

GraphIdle == nodes = <<>> /\ index = <<>> /\ model = NoModel
OrderIdle == targets = <<>> /\ order = NoOrder
PackIdle == pack = NoPack /\ pinputs = <<>> /\ pres = NoResult /\ pinf = NoFact

NoOp == [kind |-> "None"]

LocalIdle ==
    /\ lp = NoOp /\ lfilter = <<>> /\ lshape = <<>>
    /\ lgeo = NoResult /\ ldata = NoResult /\ lout = NoResult
PoolIdle ==
    /\ mp = NoOp /\ mpshape = <<>> /\ mpinf = NoResult
    /\ mpinput = NoResult /\ mpres = NoResult
ConvIdle ==
    /\ conv = NoOp /\ cfacts = <<>> /\ cinf = NoResult
    /\ cinputs = <<>> /\ cres = NoResult
IdentIdle == idin = <<>> /\ idfacts = NoResult /\ idinf = NoResult /\ idres = NoResult
BuilderIdle == protos = <<>> /\ built = <<>>
DefIdle == ndef = NoOp /\ lres = NoResult
StepIdle == stin = <<>> /\ stbuf = <<>> /\ stout = <<>>
OpsIdle ==
    /\ LocalIdle /\ PoolIdle /\ ConvIdle /\ IdentIdle /\ BuilderIdle
    /\ DefIdle /\ StepIdle

GraphInit ==
    /\ phase = "loading"
    /\ GraphIdle
    /\ OrderIdle
    /\ PackIdle
    /\ OpsIdle

AddNode ==
    /\ phase = "loading"
    /\ Len(nodes) < MaxNodes
    /\ \E n \in NewNodes(Len(nodes)) :
        /\ nodes' = Append(nodes, n)
        /\ index' = (n.name :> n.id) @@ index
    /\ UNCHANGED <<phase, model, notGraphVars>>

New ==
    /\ phase = "loading"
    /\ \E ord \in Perms(Missing(nodes)) :
        model' = RawModelNew(nodes, index, ord)
    /\ phase' = "built"
    /\ UNCHANGED <<nodes, index, notGraphVars>>

GraphNext == AddNode \/ New

SpecGraph == GraphInit /\ [][GraphNext]_vars

(***************************************************************************)
(* The evaluation order: eval_order_for_nodes (src/src/model/mod.rs:6-7    *)
(* re-exports it from the `order` submodule). A depth-first search with    *)
(* gray/black marking that fails with Cycle on a back-edge.                *)
(***************************************************************************)
\* The search state: the order so far, the nodes being visited (gray), the
\* nodes done (black), and whether a back-edge was met.
DfsStart == [order |-> <<>>, gray |-> {}, black |-> {}, cycle |-> FALSE]

\* The producing node of each input of node n, in input order.
InputNodes(ns, n) == [k \in 1..Len(ns[n + 1].inputs) |-> ns[n + 1].inputs[k].node]

RECURSIVE Visit(_, _, _), VisitAll(_, _, _)

\* A slip: the node is emitted before its inputs are visited (pre-order).
VisitPreOrder(ns, st, n) ==
    IF st.cycle \/ n \in st.black THEN st
    ELSE IF n \in st.gray THEN [st EXCEPT !.cycle = TRUE]
    ELSE LET emitted == [st EXCEPT !.gray = @ \cup {n}, !.order = Append(@, n)]
             after == VisitAll(ns, emitted, InputNodes(ns, n))
         IN  IF after.cycle THEN after
             ELSE [after EXCEPT !.gray = @ \ {n}, !.black = @ \cup {n}]

\* Visit node n: done if black, a back-edge if gray; otherwise mark it gray,
\* visit its inputs, mark it black and emit it.
Visit(ns, st, n) ==
    IF st.cycle \/ n \in st.black THEN st
    ELSE IF n \in st.gray THEN [st EXCEPT !.cycle = TRUE]
    ELSE LET after == VisitAll(ns, [st EXCEPT !.gray = @ \cup {n}], InputNodes(ns, n))
         IN  IF after.cycle THEN after
             ELSE [after EXCEPT !.gray = @ \ {n}, !.black = @ \cup {n},
                                !.order = Append(@, n)]

\* Visit the nodes of the sequence todo in order.
VisitAll(ns, st, todo) ==
    IF todo = <<>> THEN st
    ELSE VisitAll(ns, Visit(ns, st, Head(todo)), Tail(todo))

\* eval_order_for_nodes(nodes, targets): Ok(order), or Err(Cycle).
EvalOrderForNodes(ns, ts) ==
    LET st == VisitAll(ns, DfsStart, ts)
    IN  IF st.cycle THEN [ok |-> FALSE, order |-> <<>>]
        ELSE [ok |-> TRUE, order |-> st.order]

(***************************************************************************)
(* The order scenario: a graph of at most MaxEdges edges is loaded (every  *)
(* input slot 0 of a loaded node or of a node still to be loaded), then    *)
(* eval_order_for_nodes is called on it with some targets.                 *)
(***************************************************************************)
EdgeCount(ns) == Sum([i \in 1..Len(ns) |-> Len(ns[i].inputs)])

OrderNodes(p) ==
    {Node(p, NodeName(p), "Op", ins, 1) :
        ins \in SeqsUpTo({OutletId(n, 0) : n \in 0..(MaxNodes - 1)}, MaxInputs)}

OrderInit ==
    /\ phase = "loading"
    /\ GraphIdle
    /\ OrderIdle
    /\ PackIdle
    /\ OpsIdle

OrderAddNode ==
    /\ phase = "loading"
    /\ Len(nodes) < MaxNodes
    /\ \E n \in OrderNodes(Len(nodes)) :
        /\ EdgeCount(nodes) + Len(n.inputs) <= MaxEdges
        /\ nodes' = Append(nodes, n)
    /\ UNCHANGED <<phase, targets, order, notOrderVars>>

\* Every input names a loaded node: eval_order_for_nodes indexes nodes[i.node].
EvalOrder ==
    /\ phase = "loading"
    /\ \A i \in 1..Len(nodes) : \A k \in 1..Len(nodes[i].inputs) :
          nodes[i].inputs[k].node < Len(nodes)
    /\ \E ts \in SeqsUpTo(0..(Len(nodes) - 1), MaxTargets) :
        /\ targets' = ts
        /\ order' = EvalOrderForNodes(nodes, ts)
    /\ phase' = "ordered"
    /\ UNCHANGED <<nodes, notOrderVars>>

OrderNext == OrderAddNode \/ EvalOrder

SpecOrder == OrderInit /\ [][OrderNext]_vars

(***************************************************************************)
(* Tensors: a datum type, a shape and the elements in row-major order.     *)
(* Shapes and indices are sequences; axis a (0-based) is position a + 1.   *)
(***************************************************************************)
DatumTypes == {"F32", "F64", "I32", "TDim"}

Tensor(dt, shape, data) == [dt |-> dt, shape |-> shape, data |-> data]

RECURSIVE Prod(_)
Prod(shape) == IF shape = <<>> THEN 1 ELSE Head(shape) * Prod(Tail(shape))

InsertAt(s, axis, v) == SubSeq(s, 1, axis) \o <<v>> \o SubSeq(s, axis + 1, Len(s))

RemoveAt(s, axis) == SubSeq(s, 1, axis) \o SubSeq(s, axis + 2, Len(s))

\* The row-major offset of index idx in an array of the given shape.
RECURSIVE Offset(_, _)
Offset(shape, idx) ==
    IF shape = <<>> THEN 0
    ELSE Head(idx) * Prod(Tail(shape)) + Offset(Tail(shape), Tail(idx))

\* The index at row-major offset o (the array is not empty).
RECURSIVE Unravel(_, _)
Unravel(shape, o) ==
    IF shape = <<>> THEN <<>>
    ELSE <<o \div Prod(Tail(shape))>> \o Unravel(Tail(shape), o % Prod(Tail(shape)))

\* The element of tensor x at index idx.
At(x, idx) == x.data[Offset(x.shape, idx) + 1]

\* DatumType::super_type_for and the order it rests on: every type is its own
\* supertype and I32 coerces to TDim; None when the types are incomparable or
\* the iterator is empty.
SuperTypes(dt) == IF dt = "I32" THEN {"I32", "TDim"} ELSE {dt}

CommonSuperType(a, b) ==
    IF b \in SuperTypes(a) THEN b
    ELSE IF a \in SuperTypes(b) THEN a
    ELSE "None"

RECURSIVE SuperTypeFrom(_, _)
SuperTypeFrom(current, rest) ==
    IF rest = <<>> \/ current = "None" THEN current
    ELSE SuperTypeFrom(CommonSuperType(current, Head(rest)), Tail(rest))

SuperTypeFor(dts) ==
    IF dts = <<>> THEN "None" ELSE SuperTypeFrom(Head(dts), Tail(dts))

\* Value::cast_to_array::<T>: the elements keep their number, the array has
\* element type T.
CastToArray(x, T) == Tensor(T, x.shape, x.data)

\* A slip: the new axis always inserted in front.
InsertAxisFront(v, axis) == Tensor(v.dt, InsertAt(v.shape, 0, 1), v.data)

\* ArrayView::insert_axis(Axis(axis)) of a standard-layout array: a unit axis
\* at position axis, the elements unchanged (the caller checks axis <= ndim,
\* where ndarray panics).
InsertAxis(v, axis) == Tensor(v.dt, InsertAt(v.shape, axis, 1), v.data)

\* The position (1-based) in views of the array that holds coordinate c of
\* the stacked axis, and the coordinate where that array starts.
StackStart(views, axis, v) == Sum([u \in 1..(v - 1) |-> views[u].shape[axis + 1]])

StackSource(views, axis, c) ==
    CHOOSE v \in 1..Len(views) :
        /\ StackStart(views, axis, v) <= c
        /\ c < StackStart(views, axis, v) + views[v].shape[axis + 1]

\* A slip: the arrays assigned back to front.
StackReversed(axis, views) ==
    LET shape == [views[1].shape EXCEPT ![axis + 1] = Len(views)]
    IN  [kind |-> "Ok",
         out |-> Tensor(views[1].dt, shape,
                   [o \in 1..Prod(shape) |->
                      LET idx == Unravel(shape, o - 1)
                          v == Len(views) - idx[axis + 1]
                      IN  views[v].data[
                            Offset(views[v].shape, [idx EXCEPT ![axis + 1] = 0]) + 1]])]

\* ndarray::stack(Axis(axis), views): the arrays laid one after another along
\* axis; Err on no array, an axis out of bounds, or shapes that differ off
\* the axis.
Stack(axis, views) ==
    IF views = <<>> THEN [kind |-> "Err", out |-> "Unsupported"]
    ELSE IF axis >= Len(views[1].shape) THEN [kind |-> "Err", out |-> "OutOfBounds"]
    ELSE IF \E v \in 1..Len(views) :
              RemoveAt(views[v].shape, axis) # RemoveAt(views[1].shape, axis)
         THEN [kind |-> "Err", out |-> "IncompatibleShape"]
    ELSE LET shape == [views[1].shape EXCEPT
                         ![axis + 1] = Sum([v \in 1..Len(views) |-> views[v].shape[axis + 1]])]
         IN  [kind |-> "Ok",
              out |-> Tensor(views[1].dt, shape,
                        [o \in 1..Prod(shape) |->
                           LET idx == Unravel(shape, o - 1)
                               v == StackSource(views, axis, idx[axis + 1])
                           IN  views[v].data[
                                 Offset(views[v].shape,
                                        [idx EXCEPT ![axis + 1] =
                                            @ - StackStart(views, axis, v)]) + 1]])]

(***************************************************************************)
(* Pack: src/tfdeploy-tf/src/ops/array/pack.rs                             *)
(***************************************************************************)
\* Pack::new (derive(new)): t, n, axis.
PackNew(t, n, axis) == [t |-> t, n |-> n, axis |-> axis]

\* Pack::eval_t::<T>: cast every input to an array of T, insert the axis in
\* every view, stack the views along the axis.
PackEvalT(op, T, inputs) ==
    LET arrays == [i \in 1..Len(inputs) |-> CastToArray(inputs[i], T)]
    IN  IF \E i \in 1..Len(arrays) : op.axis > Len(arrays[i].shape)
        THEN [kind |-> "Panic", out |-> "insert_axis: axis out of bounds"]
        ELSE LET views == [i \in 1..Len(arrays) |-> InsertAxis(arrays[i], op.axis)]
                 array == Stack(op.axis, views)
             IN  IF array.kind = "Ok"
                 THEN [kind |-> "Ok", out |-> <<array.out>>]
                 ELSE array

\* Pack::eval: the supertype of the inputs' datum types picks eval_t's T.
PackEval(op, inputs) ==
    LET dt == SuperTypeFor([i \in 1..Len(inputs) |-> inputs[i].dt])
    IN  IF dt = "None" THEN [kind |-> "Err", out |-> "Could not find a supertype"]
        ELSE IF dt \in {"TDim", "I32", "F32"} THEN PackEvalT(op, dt, inputs)
        ELSE [kind |-> "Panic", out |-> "unsupported type"]

\* Facts: an unknown datum type, and a dimension that is known (Only) or not.
Unknown == "?"

DimOnly(d) == [any |-> FALSE, dim |-> d]

DimAny == [any |-> TRUE, dim |-> 0]

\* The dimension Pack::rules gives axis d of the output (0 <= d <= r), from
\* the shape s of inputs[0]: line 80 for d < axis, line 88 for d = axis,
\* lines 82-86 for d > axis, where d - 1 ranges over axis..(r - 1), a range
\* that ends before r - 1.
PackOutDim(op, s, d) ==
    IF d < op.axis THEN DimOnly(s[d + 1])
    ELSE IF d = op.axis THEN DimOnly(op.n)
    ELSE IF Len(s) > 0 /\ (d - 1) \in op.axis..(Len(s) - 1 - 1) THEN DimOnly(s[d])
    ELSE DimAny

\* Pack::rules solved on fully known input facts (datum type and shape) and
\* an output fact that says nothing: Fail when an equality cannot hold.
PackRules(op, facts) ==
    IF \/ Len(facts) # op.n
       \/ \E i \in 1..Len(facts) : Len(facts[i].shape) # Len(facts[1].shape)
       \/ \E i \in 1..Len(facts) : facts[i].shape # facts[1].shape
       \/ op.axis > Len(facts[1].shape)
    THEN [kind |-> "Fail", dt |-> Unknown, shape |-> <<>>]
    ELSE LET st == SuperTypeFor([i \in 1..Len(facts) |-> facts[i].dt])
             s == facts[1].shape
         IN  [kind |-> "Ok",
              dt |-> IF st # "None" THEN st ELSE Unknown,
              shape |-> [p \in 1..(Len(s) + 1) |-> PackOutDim(op, s, p - 1)]]

\* TensorFact::from(tensor), as far as Pack::rules reads it.
FactOf(x) == [dt |-> x.dt, shape |-> x.shape]

(***************************************************************************)
(* The Pack scenario: the operator is built for a node with k >= 1 inputs  *)
(* (n = k, T the first input's type), the inputs are tensors of one shape, *)
(* then the node is analysed and evaluated.                                *)
(***************************************************************************)
Shapes == SeqsUpTo(0..MaxDim, MaxRank)

TensorsOfShape(s) ==
    {Tensor(dt, s, data) : dt \in DatumTypes, data \in [1..Prod(s) -> 0..MaxVal]}

PackInit ==
    /\ phase = "init"
    /\ GraphIdle
    /\ OrderIdle
    /\ PackIdle
    /\ OpsIdle

\* pack(pb): t from attribute T, n = pb.get_input().len(), axis.
PackBuild ==
    /\ phase = "init"
    /\ \E k \in 1..MaxK, s \in Shapes :
        /\ k * Prod(s) <= MaxCells
        /\ \E xs \in [1..k -> TensorsOfShape(s)], axis \in 0..(Len(s) + 1) :
            /\ pinputs' = xs
            /\ pack' = PackNew(xs[1].dt, k, axis)
    /\ phase' = "built"
    /\ UNCHANGED <<pres, pinf, notPackVars>>

PackInfer ==
    /\ phase = "built"
    /\ pinf' = PackRules(pack, [i \in 1..Len(pinputs) |-> FactOf(pinputs[i])])
    /\ phase' = "analysed"
    /\ UNCHANGED <<pack, pinputs, pres, notPackVars>>

PackRun ==
    /\ phase \in {"built", "analysed"}
    /\ pres' = PackEval(pack, pinputs)
    /\ phase' = "evaluated"
    /\ UNCHANGED <<pack, pinputs, pinf, notPackVars>>

PackNext == PackBuild \/ PackInfer \/ PackRun

SpecPack == PackInit /\ [][PackNext]_vars

(***************************************************************************)
(* f32 elements and the usize -> f32 conversion.                           *)
(***************************************************************************)
\* f32 elements are integers here: f32::MIN lies below every other finite
\* element of the model, and NEG_INFINITY below f32::MIN.
F32Min == -(MaxVal + 1)

NegInf == F32Min - 1

Floats == {NegInf} \cup ((-MaxVal)..(MaxVal - 1))

\* f32 has 24 significant bits: every integer up to 2^24 is an f32.
F32Exact == 16777216

\* The spacing of the f32 values at n.
RECURSIVE Ulp(_)
Ulp(n) == IF n < F32Exact THEN 1 ELSE 2 * Ulp(n \div 2)

\* `n as f32`: the nearest f32, ties to the even significand.
AsF32(n) ==
    LET u == Ulp(n)
        q == n \div u
        r == n % u
    IN  IF 2 * r < u \/ (2 * r = u /\ q % 2 = 0) THEN q * u ELSE (q + 1) * u

\* `(a as f32 / b as f32).ceil() as usize`, b >= 1. The quotient is rounded
\* to an f32 as well, by less than 1/b while it is below 2^24, so that its
\* ceiling is the ceiling of the exact quotient of the two f32 values.
CeilDivF32(a, b) == (AsF32(a) + AsF32(b) - 1) \div AsF32(b)

(***************************************************************************)
(* The legacy LocalPatch operators: src/src/ops/nn/local_patch.rs          *)
(* usize arithmetic that underflows panics in a debug build and wraps in a *)
(* release build: `build` is the profile, and a result that wrapped to a   *)
(* value near 2^64 has kind "Wrapped".                                     *)
(***************************************************************************)
Builds == {"debug", "release"}

\* struct LocalPatch { _data_format, padding, strides }
LocalPatch(padding, strides) ==
    [kind |-> "LocalPatch", _data_format |-> "NHWC", padding |-> padding,
     strides |-> strides]

\* A slip: the extent divided without the + 1.
ValidDimNoPlusOne(in, filter, stride, build) ==
    IF in >= filter THEN [kind |-> "Ok", out |-> CeilDivF32(in - filter, stride)]
    ELSE [kind |-> IF build = "debug" THEN "Panic" ELSE "Wrapped", out |-> 0]

\* One component of adjusted_dim's Padding::Valid arm:
\* ((in - filter + 1) as f32 / stride as f32).ceil() as usize
ValidDim(in, filter, stride, build) ==
    IF in >= filter THEN [kind |-> "Ok", out |-> CeilDivF32(in - filter + 1, stride)]
    ELSE IF build = "debug" THEN [kind |-> "Panic", out |-> 0]
    ELSE IF in + 1 = filter THEN [kind |-> "Ok", out |-> 0]
    ELSE [kind |-> "Wrapped", out |-> 0]

\* The kind of a result made of several parts.
Kinds(parts) ==
    IF \E i \in 1..Len(parts) : parts[i].kind = "Panic" THEN "Panic"
    ELSE IF \E i \in 1..Len(parts) : parts[i].kind = "Wrapped" THEN "Wrapped"
    ELSE "Ok"

\* LocalPatch::adjusted_dim: the stride of both axes is strides[1].
AdjustedDim(patch, in_rows, in_cols, filter, build) ==
    LET stride == patch.strides[2]
    IN  IF patch.padding = "Same"
        THEN [kind |-> "Ok",
              rows |-> CeilDivF32(in_rows, stride),
              cols |-> CeilDivF32(in_cols, stride)]
        ELSE LET r == ValidDim(in_rows, filter[1], stride, build)
                 c == ValidDim(in_cols, filter[2], stride, build)
             IN  [kind |-> Kinds(<<r, c>>), rows |-> r.out, cols |-> c.out]

\* A slip: the remainder is never replaced by the stride.
SameTotalRawRemainder(in, filter, stride, build) ==
    IF filter >= (in % stride) THEN [kind |-> "Ok", out |-> filter - (in % stride)]
    ELSE [kind |-> IF build = "debug" THEN "Panic" ELSE "Wrapped", out |-> 0]

\* One of v_padding / h_padding in LocalPatch::padding:
\* max(0, filter - if in % stride == 0 { stride } else { in % stride })
SameTotal(in, filter, stride, build) ==
    LET rem == IF in % stride = 0 THEN stride ELSE in % stride
    IN  IF filter >= rem THEN [kind |-> "Ok", out |-> filter - rem]
        ELSE [kind |-> IF build = "debug" THEN "Panic" ELSE "Wrapped", out |-> 0]

\* A slip: the odd cell put before instead of after.
SplitPaddingExtraBefore(total) ==
    [before |-> total - total \div 2, after |-> total \div 2]

\* left = total / 2; right = total - left (and top, bottom alike).
SplitPadding(total) == [before |-> total \div 2, after |-> total - total \div 2]

\* LocalPatch::padding on data of the shape (count, height, width, depth).
Padding(patch, shape, filter, build) ==
    LET stride == patch.strides[2]
    IN  IF patch.padding = "Same"
        THEN LET v == SameTotal(shape[2], filter[1], stride, build)
                 h == SameTotal(shape[3], filter[2], stride, build)
             IN  [kind |-> Kinds(<<v, h>>),
                  left |-> SplitPadding(h.out).before,
                  right |-> SplitPadding(h.out).after,
                  top |-> SplitPadding(v.out).before,
                  bottom |-> SplitPadding(v.out).after]
        ELSE [kind |-> "Ok", left |-> 0, right |-> 0, top |-> 0, bottom |-> 0]

\* Array4::from_elem(shape, item)
FromElem(shape, item) == Tensor("F32", shape, [o \in 1..Prod(shape) |-> item])

\* LocalPatch::pad: Some(data with `item` around it) under Same padding, None
\* otherwise. A padding that underflowed panics in either build: in `padding`
\* itself (debug), or in from_elem on a shape of about 2^63 cells (release).
Pad(patch, data, filter, item, build) ==
    IF patch.padding = "Same"
    THEN LET p == Padding(patch, data.shape, filter, build)
         IN  IF p.kind # "Ok" THEN [kind |-> "Panic", out |-> "padding"]
             ELSE LET s == data.shape
                      left == FromElem(<<s[1], s[2], p.left, s[4]>>, item)
                      right == FromElem(<<s[1], s[2], p.right, s[4]>>, item)
                      tmp == Stack(2, <<left, data, right>>).out
                      top == FromElem(<<s[1], p.top, tmp.shape[3], s[4]>>, item)
                      bottom == FromElem(<<s[1], p.bottom, tmp.shape[3], s[4]>>, item)
                  IN  [kind |-> "Some", out |-> Stack(1, <<top, tmp, bottom>>).out]
    ELSE [kind |-> "None", out |-> <<>>]

\* The greatest element of a non-empty set of f32 elements.
MaxOf(S) == CHOOSE m \in S : \A x \in S : x <= m

\* The sum of the values of a function with a finite domain.
RECURSIVE SumFn(_)
SumFn(f) ==
    IF DOMAIN f = {} THEN 0
    ELSE LET x == CHOOSE y \in DOMAIN f : TRUE
         IN  f[x] + SumFn([y \in DOMAIN f \ {x} |-> f[y]])

\* idx is an index of an array of the given shape.
InBounds(shape, idx) == \A a \in 1..Len(shape) : 0 <= idx[a] /\ idx[a] < shape[a]

\* The (y, x) read by the loops of the legacy pooling operators for output
\* row h and column w: rows step by strides[1], columns by strides[2].
LegacyWindow(patch, ksize, h, w) ==
    {<<y, x>> : y \in (h * patch.strides[2])..(h * patch.strides[2] + ksize[1] - 1),
                x \in (w * patch.strides[3])..(w * patch.strides[3] + ksize[2] - 1)}

\* MaxPool::eval of the legacy MaxPool(LocalPatch, ksize): the data padded
\* with NEG_INFINITY, every output cell the greatest element of its window,
\* starting from NEG_INFINITY. An index outside the (padded) data panics, and
\* so does an output shape that wrapped.
LegacyMaxPoolEval(patch, ksize, data, build) ==
    IF data.dt # "F32" THEN [kind |-> "Err", out |-> "Expect input #0 to be f32"]
    ELSE IF Len(data.shape) # 4 THEN [kind |-> "Err", out |-> "Expeted 4D shape"]
    ELSE LET s == data.shape
             dim == AdjustedDim(patch, s[2], s[3], ksize, build)
             padded == Pad(patch, data, ksize, NegInf, build)
         IN  IF dim.kind # "Ok" THEN [kind |-> "Panic", out |-> "adjusted_dim"]
             ELSE IF padded.kind = "Panic" THEN padded
             ELSE LET d == IF padded.kind = "Some" THEN padded.out ELSE data
                      out_shape == <<s[1], dim.rows, dim.cols, s[4]>>
                      reads(i) ==
                          {<<i[1], yx[1], yx[2], i[4]>> :
                              yx \in LegacyWindow(patch, ksize, i[2], i[3])}
                  IN  IF \E o \in 1..Prod(out_shape) :
                            \E r \in reads(Unravel(out_shape, o - 1)) :
                                ~InBounds(d.shape, r)
                      THEN [kind |-> "Panic", out |-> "index out of bounds"]
                      ELSE [kind |-> "Ok",
                            out |-> <<Tensor("F32", out_shape,
                                [o \in 1..Prod(out_shape) |->
                                    MaxOf({NegInf} \cup
                                        {At(d, r) : r \in reads(Unravel(out_shape, o - 1))})])>>]

\* f32::NAN among the elements handed to AvgPool: a code above the finite
\* elements and above every sum of them.
NaN == MaxCells * MaxVal + 1

\* The elements of AvgPool's data: finite ones, and NaN.
AvgFloats == {NaN} \cup (0..MaxVal)

\* `sum / count as f32`, kept as the two operands of the division (count = 0
\* makes it 0.0 / 0.0).
Quotient(sum, count) == [sum |-> sum, count |-> count]

\* One output cell of AvgPool::eval: the elements of the window that are not
\* NaN are counted and summed.
AvgCell(d, reads) ==
    LET kept == {r \in reads : At(d, r) # NaN}
    IN  Quotient(SumFn([r \in kept |-> At(d, r)]), Cardinality(kept))

\* AvgPool::eval of the legacy AvgPool(LocalPatch, ksize): the data padded
\* with NAN, every output cell the sum of the elements of its window that are
\* not NaN over their count. An index outside the (padded) data panics, and
\* so does an output shape that wrapped.
LegacyAvgPoolEval(patch, ksize, data, build) ==
    IF data.dt # "F32" THEN [kind |-> "Err", out |-> "Expect input #0 to be f32"]
    ELSE IF Len(data.shape) # 4 THEN [kind |-> "Err", out |-> "Expeted 4D shape"]
    ELSE LET s == data.shape
             dim == AdjustedDim(patch, s[2], s[3], ksize, build)
             padded == Pad(patch, data, ksize, NaN, build)
         IN  IF dim.kind # "Ok" THEN [kind |-> "Panic", out |-> "adjusted_dim"]
             ELSE IF padded.kind = "Panic" THEN padded
             ELSE LET d == IF padded.kind = "Some" THEN padded.out ELSE data
                      out_shape == <<s[1], dim.rows, dim.cols, s[4]>>
                      reads(i) ==
                          {<<i[1], yx[1], yx[2], i[4]>> :
                              yx \in LegacyWindow(patch, ksize, i[2], i[3])}
                  IN  IF \E o \in 1..Prod(out_shape) :
                            \E r \in reads(Unravel(out_shape, o - 1)) :
                                ~InBounds(d.shape, r)
                      THEN [kind |-> "Panic", out |-> "index out of bounds"]
                      ELSE [kind |-> "Ok",
                            out |-> <<Tensor("F32", out_shape,
                                [o \in 1..Prod(out_shape) |->
                                    AvgCell(d, reads(Unravel(out_shape, o - 1)))])>>]

\* The guard of mk_patches:
\* len != 4 || strides[0] != 1 && strides[3] != 1 || strides[1] != strides[2]
StridesRefused(strides) ==
    \/ Len(strides) # 4
    \/ (strides[1] # 1 /\ strides[4] # 1)
    \/ strides[2] # strides[3]

\* LocalPatch::mk_patches on HWC data and a filter shape: an error for the
\* strides it refuses; otherwise one row per output position (i_y, i_x) and
\* one column per (f_y, f_x, d), read from the data padded with zero at
\* (0, i_y * stride + f_y, i_x * stride + f_x, d). An index outside the
\* (padded) data panics, and so does an output shape that wrapped.
MkPatches(patch, data, shape, build) ==
    IF StridesRefused(patch.strides)
    THEN [kind |-> "Err", out |-> "strides must be of the form [1, s, s, 1]"]
    ELSE LET stride == patch.strides[2]
             h == data.shape[1]
             w == data.shape[2]
             depth == data.shape[3]
             dim == AdjustedDim(patch, h, w, shape, build)
             data4 == Tensor(data.dt, <<1, h, w, depth>>, data.data)
             padded == Pad(patch, data4, shape, 0, build)
         IN  IF dim.kind # "Ok" THEN [kind |-> "Panic", out |-> "adjusted_dim"]
             ELSE IF padded.kind = "Panic" THEN padded
             ELSE LET d == IF padded.kind = "Some" THEN padded.out ELSE data4
                      patches_size == <<dim.rows * dim.cols, shape[1] * shape[2] * depth>>
                      read(rc) ==
                          LET i_y == rc[1] \div dim.cols
                              i_x == rc[1] % dim.cols
                              f_y == rc[2] \div (depth * shape[2])
                              f_x == (rc[2] % (depth * shape[2])) \div depth
                          IN  <<0, i_y * stride + f_y, i_x * stride + f_x, rc[2] % depth>>
                  IN  IF \E o \in 1..Prod(patches_size) :
                            ~InBounds(d.shape, read(Unravel(patches_size, o - 1)))
                      THEN [kind |-> "Panic", out |-> "index out of bounds"]
                      ELSE [kind |-> "Ok",
                            out |-> <<Tensor(data.dt, patches_size,
                                [o \in 1..Prod(patches_size) |->
                                    At(d, read(Unravel(patches_size, o - 1)))])>>]

(***************************************************************************)
(* The legacy scenario: an operator is built over a LocalPatch with        *)
(* strides [1, sh, sw, 1] and a filter, and meets data of some NHWC shape; *)
(* Conv2D::eval computes the output extents and the padding of that shape, *)
(* MaxPool::eval pools a tensor of that shape.                             *)
(***************************************************************************)
\* No operator is built yet.
OpsInit ==
    /\ phase = "init"
    /\ GraphIdle
    /\ OrderIdle
    /\ PackIdle
    /\ OpsIdle

LocalBuild ==
    /\ phase = "init"
    /\ \E padding \in {"Valid", "Same"}, sh, sw \in 1..MaxStride :
          lp' = LocalPatch(padding, <<1, sh, sw, 1>>)
    /\ lfilter' \in (1..MaxKernel) \X (1..MaxKernel)
    /\ lshape' \in (1..MaxDim) \X (1..MaxExtent) \X (1..MaxExtent) \X (1..MaxDim)
    /\ phase' = "local"
    /\ UNCHANGED <<lgeo, ldata, lout, notLocalVars>>

\* Conv2D::eval, lines 316-329: adjusted_dim, then padding.
LocalGeometry ==
    /\ phase = "local"
    /\ \E build \in Builds :
          lgeo' = [kind |-> "Geometry",
                   dim |-> AdjustedDim(lp, lshape[2], lshape[3], lfilter, build),
                   pad |-> Padding(lp, lshape, lfilter, build)]
    /\ phase' = "measured"
    /\ UNCHANGED <<lp, lfilter, lshape, ldata, lout, notLocalVars>>

LocalMaxPool ==
    /\ phase = "local"
    /\ Prod(lshape) <= MaxCells
    /\ \E data \in [1..Prod(lshape) -> Floats], build \in Builds :
          /\ ldata' = Tensor("F32", lshape, data)
          /\ lout' = LegacyMaxPoolEval(lp, lfilter, ldata', build)
    /\ phase' = "pooled"
    /\ UNCHANGED <<lp, lfilter, lshape, lgeo, notLocalVars>>

LocalAvgPool ==
    /\ phase = "local"
    /\ Prod(lshape) <= MaxCells
    /\ \E data \in [1..Prod(lshape) -> AvgFloats], build \in Builds :
          /\ ldata' = Tensor("F32", lshape, data)
          /\ lout' = LegacyAvgPoolEval(lp, lfilter, ldata', build)
    /\ phase' = "averaged"
    /\ UNCHANGED <<lp, lfilter, lshape, lgeo, notLocalVars>>

LocalNext == LocalBuild \/ LocalGeometry \/ LocalMaxPool \/ LocalAvgPool

SpecLocal == OpsInit /\ [][LocalNext]_vars

(***************************************************************************)
(* The patches scenario: a LocalPatch with any strides vector meets HWC    *)
(* data and a filter shape in mk_patches.                                  *)
(***************************************************************************)
PatchesBuild ==
    /\ phase = "init"
    /\ \E padding \in {"Valid", "Same"}, strides \in SeqsUpTo(1..MaxStride, MaxStridesLen + 1) :
          lp' = LocalPatch(padding, strides)
    /\ lfilter' \in (1..MaxPatchKernel) \X (1..MaxPatchKernel)
    /\ lshape' \in (1..MaxExtent) \X (1..MaxExtent) \X (1..MaxDim)
    /\ phase' = "patches"
    /\ UNCHANGED <<lgeo, ldata, lout, notLocalVars>>

\* The data holds any elements when it is small, and zeros otherwise.
LocalMkPatches ==
    /\ phase = "patches"
    /\ \E data \in IF Prod(lshape) <= MaxCells THEN [1..Prod(lshape) -> 0..MaxVal]
                    ELSE {[o \in 1..Prod(lshape) |-> 0]},
          build \in Builds :
          /\ ldata' = Tensor("F32", lshape, data)
          /\ lout' = MkPatches(lp, ldata', lfilter, build)
    /\ phase' = "patched"
    /\ UNCHANGED <<lp, lfilter, lshape, lgeo, notLocalVars>>

PatchesNext == PatchesBuild \/ LocalMkPatches

SpecPatches == OpsInit /\ [][PatchesNext]_vars

\* Both legacy scenarios: the geometry, the two pooling operators and
\* mk_patches.
LegacyNext == LocalNext \/ PatchesNext

SpecLegacy == OpsInit /\ [][LegacyNext]_vars

(***************************************************************************)
(* The Patch abstraction shared by the pooling and convolution operators   *)
(* (ops::nn::{DataFormat, PaddingSpec, Patch}, declared in                 *)
(* src/src/ops/nn/mod.rs): per spatial axis                                *)
(*     effective_k = (k - 1) * dilation + 1                                *)
(*     out = floor((in + pad_total - effective_k) / stride) + 1            *)
(* with pad_total = 0 for Valid; SameUpper appends the odd cell, SameLower *)
(* prepends it.                                                            *)
(***************************************************************************)
DataFormats == {"NCHW", "NHWC"}

PaddingSpecs == {"Valid", "SameUpper", "SameLower"}

\* vec![1; n]
Ones(n) == [i \in 1..n |-> 1]

\* DataFormat::shape(full_shape): the axes (0-based) of a full shape.
HwRank(shape) == Len(shape) - 2

CAxis(fmt, shape) == IF fmt = "NHWC" THEN Len(shape) - 1 ELSE 1

HAxis(fmt) == IF fmt = "NHWC" THEN 1 ELSE 2

HwDims(fmt, shape) == SubSeq(shape, HAxis(fmt) + 1, HAxis(fmt) + HwRank(shape))

NDim(shape) == shape[1]

CDim(fmt, shape) == shape[CAxis(fmt, shape) + 1]

EffectiveK(k, dilation) == (k - 1) * dilation + 1

\* The total padding that makes the output extent ceil(in / stride).
PaddingFor(in, effective_k, stride) ==
    LET out == (in + stride - 1) \div stride
        need == (out - 1) * stride + effective_k
    IN  IF need > in THEN need - in ELSE 0

\* PaddingSpec::compute along one axis: the padding before and after, and the
\* output extent.
ComputeAxis(padding, in, k, dilation, stride) ==
    LET ek == EffectiveK(k, dilation)
        total == IF padding = "Valid" THEN 0 ELSE PaddingFor(in, ek, stride)
        small == total \div 2
    IN  [before |-> IF padding = "SameLower" THEN total - small ELSE small,
         after |-> IF padding = "SameLower" THEN small ELSE total - small,
         out |-> (in + total - ek) \div stride + 1]

\* PaddingSpec::compute: (pad_before, pad_after, output) over the axes.
Compute(padding, hw_dims, kernel, dilations, strides) ==
    LET axis(i) == ComputeAxis(padding, hw_dims[i], kernel[i], dilations[i], strides[i])
    IN  [before |-> [i \in 1..Len(hw_dims) |-> axis(i).before],
         after |-> [i \in 1..Len(hw_dims) |-> axis(i).after],
         out |-> [i \in 1..Len(hw_dims) |-> axis(i).out]]

\* Patch::new(data_fmt, dilations, kernel_spatial_shape, padding, strides,
\* input_full_shape)
PatchNew(fmt, dilations, kernel, padding, strides, input_shape) ==
    [fmt |-> fmt, dilations |-> dilations, kernel |-> kernel, strides |-> strides,
     input_shape |-> input_shape,
     geo |-> Compute(padding, HwDims(fmt, input_shape), kernel, dilations, strides)]

\* Patch::output_full_shape(channels): batch, output extents and channels at
\* the places of the data format.
OutputFullShape(patch, channels) ==
    IF patch.fmt = "NHWC"
    THEN <<NDim(patch.input_shape)>> \o patch.geo.out \o <<channels>>
    ELSE <<NDim(patch.input_shape), channels>> \o patch.geo.out

\* The offsets inside a kernel of the given spatial shape.
KernelOffsets(kernel) ==
    {k \in [1..Len(kernel) -> 0..MaxKernel] : \A i \in 1..Len(kernel) : k[i] < kernel[i]}

\* The index of the input that output spatial position hw reads at kernel
\* offset k, for batch n and channel c; outside the input in the padding.
SourceIndex(patch, n, hw, c, k) ==
    LET src == [i \in 1..Len(hw) |->
                   hw[i] * patch.strides[i] + k[i] * patch.dilations[i]
                     - patch.geo.before[i]]
    IN  IF patch.fmt = "NHWC" THEN <<n>> \o src \o <<c>> ELSE <<n, c>> \o src

\* Patch::patch_data_iter(input, coords): per kernel offset, Some(element) of
\* the input, or None in the padding.
PatchDataIter(patch, input, coords) ==
    LET n == coords[1]
        c == coords[CAxis(patch.fmt, coords) + 1]
        hw == HwDims(patch.fmt, coords)
    IN  [k \in KernelOffsets(patch.kernel) |->
            LET idx == SourceIndex(patch, n, hw, c, k)
            IN  IF InBounds(input.shape, idx)
                THEN [some |-> TRUE, v |-> At(input, idx)]
                ELSE [some |-> FALSE, v |-> 0]]

(***************************************************************************)
(* MaxPool: src/src/ops/nn/maxpool.rs                                      *)
(***************************************************************************)
None == [some |-> FALSE]

Some(v) == [some |-> TRUE, v |-> v]

\* MaxPool::new (derive(new)): data_fmt, kernel_shape, padding, strides.
MaxPoolNew(data_fmt, kernel_shape, padding, strides) ==
    [kind |-> "MaxPool", data_fmt |-> data_fmt, kernel_shape |-> kernel_shape,
     padding |-> padding, strides |-> strides]

\* self.strides.clone().unwrap_or_else(|| vec![1; hw_rank])
UnwrapOr(opt, default) == IF opt.some THEN opt.v ELSE default

\* MaxPool::patch
MaxPoolPatch(op, input_full_shape) ==
    LET hw_rank == HwRank(input_full_shape)
    IN  PatchNew(op.data_fmt, Ones(hw_rank), op.kernel_shape, op.padding,
                 UnwrapOr(op.strides, Ones(hw_rank)), input_full_shape)

\* One output cell: the window's entries, the padding filtered out, folded
\* with max from f32::MIN.
MaxPoolCell(patch, input, coords) ==
    LET window == PatchDataIter(patch, input, coords)
    IN  MaxOf({F32Min} \cup {window[k].v : k \in {j \in DOMAIN window : window[j].some}})

\* MaxPool::eval
MaxPoolEval(op, inputs) ==
    IF Len(inputs) # 1 THEN [kind |-> "Err", out |-> "Expected 1 arg"]
    ELSE IF inputs[1].dt # "F32" THEN [kind |-> "Err", out |-> "not a f32 tensor"]
    ELSE LET input == inputs[1]
             patch == MaxPoolPatch(op, input.shape)
             shape == OutputFullShape(patch, CDim(patch.fmt, patch.input_shape))
         IN  [kind |-> "Ok",
              out |-> <<Tensor("F32", shape,
                          [o \in 1..Prod(shape) |->
                              MaxPoolCell(patch, input, Unravel(shape, o - 1))])>>]

\* MaxPool::rules solved on an input fact with a known datum type and a fully
\* known shape, and an output fact that says nothing: the output's datum type
\* and one dimension per axis of the input. No rule sets the output's rank,
\* which stays unknown (DimAny).
MaxPoolRules(op, fact) ==
    LET ishape == fact.shape
        ones == Ones(HwRank(ishape))
        out_geo_shape == Compute(op.padding, HwDims(op.data_fmt, ishape), op.kernel_shape,
                                 ones, UnwrapOr(op.strides, ones)).out
    IN  [kind |-> "Ok", dt |-> fact.dt, rank |-> DimAny,
         shape |-> [a \in 1..Len(ishape) |->
                      IF a = 1 THEN DimOnly(NDim(ishape))
                      ELSE IF a = CAxis(op.data_fmt, ishape) + 1
                           THEN DimOnly(CDim(op.data_fmt, ishape))
                      ELSE DimOnly(out_geo_shape[a - HAxis(op.data_fmt)])]]

(***************************************************************************)
(* The MaxPool scenario: the operator is built for an input of some shape  *)
(* in its data format (under Valid padding the kernel fits in the input),  *)
(* the node is analysed on that shape, then evaluated on a tensor of it.   *)
(***************************************************************************)
\* The full shape of batch n, spatial extents hw and c channels.
FullShape(fmt, n, hw, c) == IF fmt = "NHWC" THEN <<n>> \o hw \o <<c>> ELSE <<n, c>> \o hw

\* None, or Some(strides) for every stride up to MaxStride on r axes.
StrideOptions(r) == {None} \cup {Some(s) : s \in [1..r -> 1..MaxStride]}

PoolBuild ==
    /\ phase = "init"
    /\ \E r \in 1..MaxSpatial, fmt \in DataFormats, padding \in PaddingSpecs :
        \E kernel \in [1..r -> 1..MaxPatchKernel], strides \in StrideOptions(r),
           n \in 1..MaxDim, c \in 1..MaxDim, hw \in [1..r -> 1..MaxExtent] :
            /\ padding = "Valid" => \A i \in 1..r : hw[i] >= kernel[i]
            /\ mp' = MaxPoolNew(fmt, kernel, padding, strides)
            /\ mpshape' = FullShape(fmt, n, hw, c)
    /\ phase' = "pool"
    /\ UNCHANGED <<mpinf, mpinput, mpres, notPoolVars>>

PoolInfer ==
    /\ phase = "pool"
    /\ mpinf' = MaxPoolRules(mp, [dt |-> "F32", shape |-> mpshape])
    /\ phase' = "pool_analysed"
    /\ UNCHANGED <<mp, mpshape, mpinput, mpres, notPoolVars>>

PoolRun ==
    /\ phase = "pool_analysed"
    /\ Prod(mpshape) <= MaxCells
    /\ \E data \in [1..Prod(mpshape) -> Floats] :
          /\ mpinput' = Tensor("F32", mpshape, data)
          /\ mpres' = MaxPoolEval(mp, <<mpinput'>>)
    /\ phase' = "pool_evaluated"
    /\ UNCHANGED <<mp, mpshape, mpinf, notPoolVars>>

PoolNext == PoolBuild \/ PoolInfer \/ PoolRun

SpecPool == OpsInit /\ [][PoolNext]_vars

(***************************************************************************)
(* Conv: src/src/ops/nn/conv/gen.rs                                        *)
(***************************************************************************)
\* Conv::new (derive(new)): data_is_nhwc, kernel_is_hwio, dilations,
\* kernel_shape, padding, strides.
ConvNew(data_is_nhwc, kernel_is_hwio, dilations, kernel_shape, padding, strides) ==
    [kind |-> "Conv", data_is_nhwc |-> data_is_nhwc, kernel_is_hwio |-> kernel_is_hwio,
     dilations |-> dilations, kernel_shape |-> kernel_shape, padding |-> padding,
     strides |-> strides]

\* Conv::spatial_kernel_dim
SpatialKernelDim(op) == IF op.kernel_is_hwio THEN 0 ELSE 2

\* Conv::patch. The kernel has the rank of the input, and dilations and
\* strides, when given, one entry per spatial axis: the slice and the three
\* assert_eq! hold.
ConvPatch(op, input_full_shape, kernel_full_shape) ==
    LET spatial_rank == Len(input_full_shape) - 2
        dilations == UnwrapOr(op.dilations, Ones(spatial_rank))
        strides == UnwrapOr(op.strides, Ones(spatial_rank))
        kernel_spatial_shape ==
            SubSeq(kernel_full_shape, SpatialKernelDim(op) + 1,
                   SpatialKernelDim(op) + spatial_rank)
    IN  PatchNew(IF op.data_is_nhwc THEN "NHWC" ELSE "NCHW", dilations,
                 kernel_spatial_shape, op.padding, strides, input_full_shape)

\* A slip: the output channels read from the other end of the kernel.
ConvOutputShapeSwapped(op, ishape, kshape) ==
    OutputFullShape(ConvPatch(op, ishape, kshape),
                    IF op.kernel_is_hwio THEN kshape[1] ELSE kshape[Len(kshape)])

\* Conv::output_shape
ConvOutputShape(op, ishape, kshape) ==
    LET patch == ConvPatch(op, ishape, kshape)
        ko == IF op.kernel_is_hwio THEN kshape[Len(kshape)] ELSE kshape[1]
    IN  OutputFullShape(patch, ko)

(***************************************************************************)
(* Facts and their unification, as the rules of Conv and Identity use      *)
(* them: a datum type that is known or Unknown, and a shape that is open   *)
(* (rank unknown) or closed, with each dimension known or not.             *)
(***************************************************************************)
\* The contradiction.
Bottom == "bottom"

BottomDim == [any |-> FALSE, dim |-> -1]

TypeFact(dt, open, dims) == [dt |-> dt, open |-> open, dims |-> dims]

\* The fact that says nothing.
AnyFact == TypeFact(Unknown, TRUE, <<>>)

UnifyDt(a, b) ==
    IF a = Unknown THEN b ELSE IF b = Unknown \/ a = b THEN a ELSE Bottom

UnifyDim(a, b) ==
    IF a.any THEN b ELSE IF b.any \/ a.dim = b.dim THEN a ELSE BottomDim

\* The shape dims of fact f as a closed shape of rank r (r >= Len(f.dims)).
Closed(f, r) ==
    [f EXCEPT !.open = FALSE,
              !.dims = [i \in 1..r |-> IF i <= Len(f.dims) THEN f.dims[i] ELSE DimAny]]

\* equals(&f.rank, r): the fact with rank r, or Bottom's mark on a closed
\* shape of another rank.
WithRank(f, r) ==
    IF f.open /\ Len(f.dims) <= r THEN Closed(f, r)
    ELSE IF ~f.open /\ Len(f.dims) = r THEN f
    ELSE [f EXCEPT !.dt = Bottom]

\* equals(&f.shape[axis], d), on a closed shape that has the axis.
WithDim(f, axis, d) == [f EXCEPT !.dims[axis + 1] = UnifyDim(@, d)]

\* equals(&f.datum_type, dt)
WithDt(f, dt) == [f EXCEPT !.dt = UnifyDt(@, dt)]

\* The fact holds a contradiction.
IsBottom(f) == f.dt = Bottom \/ \E i \in 1..Len(f.dims) : f.dims[i] = BottomDim

\* The shape of the fact is closed with every dimension known.
ShapeKnown(f) == ~f.open /\ \A i \in 1..Len(f.dims) : ~f.dims[i].any

ConcreteShape(f) == [i \in 1..Len(f.dims) |-> f.dims[i].dim]

RECURSIVE SetDims(_, _, _, _)
\* equals(&f.shape[from + ix], dims[ix]) for every ix (0-based) from `ix` on.
SetDims(f, from, dims, ix) ==
    IF ix >= Len(dims) THEN f
    ELSE SetDims(WithDim(f, from + ix, DimOnly(dims[ix + 1])), from, dims, ix + 1)

\* The axes (0-based) that Conv::rules names: the input's channels, and the
\* kernel's input and output channels.
InputCAxis(op, irank) == IF op.data_is_nhwc THEN irank - 1 ELSE 1

FilterIAxis(op, krank) == IF op.kernel_is_hwio THEN krank - 2 ELSE 1

FilterOAxis(op, krank) == IF op.kernel_is_hwio THEN krank - 1 ELSE 0

\* A slip: the input's channels copied to the kernel, never the other way.
UnifyChannelsOneWay(input_c, filter_i) ==
    [input_c |-> input_c, filter_i |-> UnifyDim(input_c, filter_i)]

\* solver.equals(input_c, filter_i): both sides become their unification.
UnifyChannels(input_c, filter_i) ==
    [input_c |-> UnifyDim(input_c, filter_i), filter_i |-> UnifyDim(input_c, filter_i)]

\* Conv::rules solved on the input facts (input, kernel and, when there are
\* three, bias) and an output fact that says nothing. Ok with the refined
\* input facts and the output fact, or Fail when an equality cannot hold.
ConvRules(op, facts) ==
    LET has_bias == Len(facts) = 3
        \* lines 97-105: the kernel_shape attribute
        kernel1 ==
            IF op.kernel_shape.some
            THEN LET k == WithRank(facts[2], Len(op.kernel_shape.v) + 2)
                 IN  IF IsBottom(k) THEN k
                     ELSE SetDims(k, SpatialKernelDim(op), op.kernel_shape.v, 0)
            ELSE facts[2]
        \* lines 106-110 and 115: the datum types
        dt == UnifyDt(UnifyDt(facts[1].dt, kernel1.dt),
                      IF has_bias THEN facts[3].dt ELSE Unknown)
        \* lines 111-125: the bias
        bias1 == IF has_bias THEN WithRank(facts[3], 1) ELSE AnyFact
        o_axis == FilterOAxis(op, Len(kernel1.dims))
        bias_o == has_bias /\ ~kernel1.open /\ ~IsBottom(bias1)
        filter_o ==
            IF bias_o THEN UnifyDim(bias1.dims[1], kernel1.dims[o_axis + 1]) ELSE DimAny
        kernel2 == IF bias_o THEN WithDim(kernel1, o_axis, filter_o) ELSE kernel1
        bias2 == IF bias_o THEN WithDim(bias1, 0, filter_o) ELSE bias1
        \* lines 126-142: the channels
        ranks == ~facts[1].open /\ ~kernel2.open
        c_axis == InputCAxis(op, Len(facts[1].dims))
        i_axis == FilterIAxis(op, Len(kernel2.dims))
        channels ==
            IF ranks
            THEN UnifyChannels(facts[1].dims[c_axis + 1], kernel2.dims[i_axis + 1])
            ELSE [input_c |-> DimAny, filter_i |-> DimAny]
        input3 == WithDt(IF ranks THEN WithDim(facts[1], c_axis, channels.input_c)
                         ELSE facts[1], dt)
        kernel3 == WithDt(IF ranks THEN WithDim(kernel2, i_axis, channels.filter_i)
                          ELSE kernel2, dt)
        bias3 == WithDt(bias2, dt)
        \* lines 143-149: the output shape
        output ==
            IF ShapeKnown(input3) /\ ShapeKnown(kernel3) /\ ~IsBottom(input3)
                 /\ ~IsBottom(kernel3)
            THEN LET shape == ConvOutputShape(op, ConcreteShape(input3),
                                              ConcreteShape(kernel3))
                 IN  TypeFact(dt, FALSE, [i \in 1..Len(shape) |-> DimOnly(shape[i])])
            ELSE TypeFact(dt, TRUE, <<>>)
        inputs == IF has_bias THEN <<input3, kernel3, bias3>> ELSE <<input3, kernel3>>
    IN  IF \E i \in 1..Len(inputs) : IsBottom(inputs[i])
        THEN [kind |-> "Fail", inputs |-> <<>>, output |-> AnyFact]
        ELSE [kind |-> "Ok", inputs |-> inputs, output |-> output]

\* The index in the kernel of spatial offset k, input channel i and output
\* channel o.
KernelIndex(op, k, i, o) == IF op.kernel_is_hwio THEN k \o <<i, o>> ELSE <<o, i>> \o k

\* A slip: only the first input channel summed.
ConvCellFirstChannel(op, patch, input, kernel, bias, coords) ==
    LET n == coords[1]
        o == coords[CAxis(patch.fmt, coords) + 1]
        hw == HwDims(patch.fmt, coords)
    IN  (IF bias.some THEN bias.v.data[o + 1] ELSE 0)
        + SumFn([k \in KernelOffsets(patch.kernel) |->
                   LET idx == SourceIndex(patch, n, hw, 0, k)
                   IN  IF InBounds(input.shape, idx)
                       THEN At(input, idx) * At(kernel, KernelIndex(op, k, 0, o))
                       ELSE 0])

\* One output cell of the convolution: its bias plus the sum, over the kernel
\* offsets and the input channels, of input element times kernel element,
\* the padding counting for zero.
ConvCell(op, patch, input, kernel, bias, coords) ==
    LET n == coords[1]
        o == coords[CAxis(patch.fmt, coords) + 1]
        hw == HwDims(patch.fmt, coords)
        ci == CDim(patch.fmt, input.shape)
    IN  (IF bias.some THEN bias.v.data[o + 1] ELSE 0)
        + SumFn([ki \in KernelOffsets(patch.kernel) \X (0..(ci - 1)) |->
                   LET idx == SourceIndex(patch, n, hw, ki[2], ki[1])
                   IN  IF InBounds(input.shape, idx)
                       THEN At(input, idx)
                              * At(kernel, KernelIndex(op, ki[1], ki[2], o))
                       ELSE 0])

\* FixedParamsConv::new(conv, input_shape, kernel, bias)?.convolve(input): an
\* error when the input's channels are not the kernel's input channels or the
\* bias is not one element per output channel; otherwise the tensor of the
\* output shape, cell by cell.
Convolve(op, input, kernel, bias) ==
    LET patch == ConvPatch(op, input.shape, kernel.shape)
        krank == Len(kernel.shape)
        ko == kernel.shape[FilterOAxis(op, krank) + 1]
        shape == ConvOutputShape(op, input.shape, kernel.shape)
    IN  IF CDim(patch.fmt, input.shape) # kernel.shape[FilterIAxis(op, krank) + 1]
        THEN [kind |-> "Err", out |-> "input and kernel channels differ"]
        ELSE IF bias.some /\ bias.v.shape # <<ko>>
        THEN [kind |-> "Err", out |-> "bias and output channels differ"]
        ELSE [kind |-> "Ok",
              out |-> <<Tensor("F32", shape,
                          [p \in 1..Prod(shape) |->
                              ConvCell(op, patch, input, kernel, bias,
                                       Unravel(shape, p - 1))])>>]

\* Conv::eval: (input, kernel) or (input, kernel, bias), all viewed as f32.
ConvEval(op, inputs) ==
    IF Len(inputs) \notin {2, 3} THEN [kind |-> "Err", out |-> "Expected 3 arg"]
    ELSE IF \E i \in 1..Len(inputs) : inputs[i].dt # "F32"
    THEN [kind |-> "Err", out |-> "not a f32 tensor"]
    ELSE Convolve(op, inputs[1], inputs[2],
                  IF Len(inputs) = 3 THEN Some(inputs[3]) ELSE None)

(***************************************************************************)
(* The Conv scenario: the operator is built for an input and a kernel of   *)
(* one rank (under Valid padding the dilated kernel fits in the input),    *)
(* and perhaps a bias; the node is analysed on facts that know all or part *)
(* of these tensors; when the facts know everything, the node is evaluated *)
(* on tensors of these shapes.                                             *)
(***************************************************************************)
\* None, or Some(dilations) for every dilation from 2 to MaxDilation.
DilationOptions(r) == {None} \cup {Some(d) : d \in [1..r -> 2..MaxDilation]}

\* None, or Some(strides) for every stride from 2 to MaxStride.
ConvStrideOptions(r) == {None} \cup {Some(s) : s \in [1..r -> 2..MaxStride]}

\* The kernel shape of spatial extents k, ci input and co output channels.
KernelShape(hwio, k, ci, co) == IF hwio THEN k \o <<ci, co>> ELSE <<co, ci>> \o k

\* The fact that knows everything of a tensor of datum type F32 and the
\* given shape, and the one that does not know the dimension of one axis.
FullFact(shape) == TypeFact("F32", FALSE, [i \in 1..Len(shape) |-> DimOnly(shape[i])])

FactWithout(shape, axis) == [FullFact(shape) EXCEPT !.dims[axis + 1] = DimAny]

\* The facts of the inputs of a Conv. Without a bias: each of input and
\* kernel fully known or its channel dimension unknown, or nothing known of
\* either. With a bias of b elements: everything known.
ConvFacts(op, ishape, kshape, bias) ==
    IF bias.some
    THEN {<<FullFact(ishape), FullFact(kshape), FullFact(<<bias.v>>)>>}
    ELSE {<<i, k>> :
             i \in {FullFact(ishape), FactWithout(ishape, InputCAxis(op, Len(ishape)))},
             k \in {FullFact(kshape), FactWithout(kshape, FilterIAxis(op, Len(kshape)))}}
         \cup {<<AnyFact, AnyFact>>}

ConvBuild ==
    /\ phase = "init"
    /\ \E r \in 1..MaxConvSpatial, nhwc \in BOOLEAN, hwio \in BOOLEAN,
          padding \in PaddingSpecs :
        \E k \in [1..r -> 1..MaxPatchKernel], hw \in [1..r -> 1..MaxExtent],
           strides \in ConvStrideOptions(r), dilations \in DilationOptions(r),
           n \in 1..MaxDim, c \in 1..MaxDim, ci \in 1..MaxDim, co \in 1..MaxDim,
           bias \in {None, Some(MaxDim)} :
            LET ishape == FullShape(IF nhwc THEN "NHWC" ELSE "NCHW", n, hw, c)
                kshape == KernelShape(hwio, k, ci, co)
            IN  /\ Prod(ishape) <= MaxCells
                /\ Prod(kshape) <= MaxCells
                /\ padding = "Valid" =>
                      \A i \in 1..r :
                         hw[i] >= EffectiveK(k[i], UnwrapOr(dilations, Ones(r))[i])
                /\ \E kernel_shape \in {None, Some(k)} :
                      conv' = ConvNew(nhwc, hwio, dilations, kernel_shape, padding, strides)
                /\ cfacts' \in ConvFacts(conv', ishape, kshape, bias)
    /\ phase' = "conv"
    /\ UNCHANGED <<cinf, cinputs, cres, notConvVars>>

ConvInfer ==
    /\ phase = "conv"
    /\ cinf' = ConvRules(conv, cfacts)
    /\ phase' = "conv_analysed"
    /\ UNCHANGED <<conv, cfacts, cinputs, cres, notConvVars>>

\* The tensor of the given shape that holds 1, 2, ... in row-major order.
Ramp(shape) == Tensor("F32", shape, [o \in 1..Prod(shape) |-> o])

\* The input and the bias hold 1, 2, ...; the kernel holds any elements.
ConvRun ==
    /\ phase = "conv_analysed"
    /\ \A i \in 1..Len(cfacts) : ShapeKnown(cfacts[i])
    /\ \E kernel \in [1..Prod(ConcreteShape(cfacts[2])) -> 0..MaxVal] :
          cinputs' = [i \in 1..Len(cfacts) |->
                        IF i = 2 THEN Tensor("F32", ConcreteShape(cfacts[2]), kernel)
                        ELSE Ramp(ConcreteShape(cfacts[i]))]
    /\ cres' = ConvEval(conv, cinputs')
    /\ phase' = "conv_evaluated"
    /\ UNCHANGED <<conv, cfacts, cinf, notConvVars>>

ConvNext == ConvBuild \/ ConvInfer \/ ConvRun

SpecConv == OpsInit /\ [][ConvNext]_vars

(***************************************************************************)
(* Identity: src/src/ops/identity.rs                                       *)
(***************************************************************************)
\* Identity::eval
IdentityEval(inputs) == [kind |-> "Ok", out |-> inputs]

\* The unification of two facts: of their datum types and of their shapes
\* (an open shape takes the rank of a closed one that is not shorter).
UnifyFact(a, b) ==
    LET r == IF Len(a.dims) >= Len(b.dims) THEN Len(a.dims) ELSE Len(b.dims)
        dim(f, i) == IF i <= Len(f.dims) THEN f.dims[i] ELSE DimAny
        ranks == /\ (~a.open => Len(a.dims) = r)
                 /\ (~b.open => Len(b.dims) = r)
    IN  TypeFact(IF ranks THEN UnifyDt(a.dt, b.dt) ELSE Bottom,
                 a.open /\ b.open,
                 [i \in 1..r |-> UnifyDim(dim(a, i), dim(b, i))])

\* A slip: the input's fact copied to the output, never the other way.
IdentityRulesForward(inputs, outputs) ==
    IF Len(inputs) # 1 \/ Len(outputs) # 1 \/ IsBottom(UnifyFact(inputs[1], outputs[1]))
    THEN [kind |-> "Fail", inputs |-> <<>>, outputs |-> <<>>]
    ELSE [kind |-> "Ok", inputs |-> inputs,
          outputs |-> <<UnifyFact(inputs[1], outputs[1])>>]

\* Identity::rules solved on the facts of the node's inputs and outputs: one
\* input, one output, their datum types equal and their shapes equal.
IdentityRules(inputs, outputs) ==
    IF Len(inputs) # 1 \/ Len(outputs) # 1 \/ IsBottom(UnifyFact(inputs[1], outputs[1]))
    THEN [kind |-> "Fail", inputs |-> <<>>, outputs |-> <<>>]
    ELSE [kind |-> "Ok",
          inputs |-> <<UnifyFact(inputs[1], outputs[1])>>,
          outputs |-> <<UnifyFact(inputs[1], outputs[1])>>]

(***************************************************************************)
(* The Identity scenario: a node with some inputs and outputs is analysed  *)
(* on facts that know all, part or nothing of them, and evaluated on some  *)
(* tensors.                                                                *)
(***************************************************************************)
\* What is known of a tensor on a graph edge.
EdgeFacts ==
    {AnyFact}
    \cup {TypeFact(dt, TRUE, <<>>) : dt \in {"F32", "I32"}}
    \cup {TypeFact(dt, FALSE, dims) :
            dt \in {Unknown, "F32"},
            dims \in SeqsUpTo({DimAny} \cup {DimOnly(d) : d \in 1..MaxDim}, MaxRank)}

IdentInfer ==
    /\ phase = "init"
    /\ \E ins \in SeqsUpTo(EdgeFacts, 2), outs \in SeqsUpTo(EdgeFacts, 2) :
          /\ Len(ins) + Len(outs) <= 3
          /\ idfacts' = [kind |-> "Facts", inputs |-> ins, outputs |-> outs]
          /\ idinf' = IdentityRules(ins, outs)
    /\ phase' = "ident_analysed"
    /\ UNCHANGED <<idin, idres, notIdentVars>>

IdentRun ==
    /\ phase = "init"
    /\ \E s \in Shapes :
          /\ Prod(s) <= MaxRank
          /\ idin' \in SeqsUpTo(TensorsOfShape(s), 2)
    /\ idres' = IdentityEval(idin')
    /\ phase' = "ident_evaluated"
    /\ UNCHANGED <<idfacts, idinf, notIdentVars>>

IdentNext == IdentInfer \/ IdentRun

SpecIdent == OpsInit /\ [][IdentNext]_vars

(***************************************************************************)
(* Identity::step: src/src/ops/identity.rs                                 *)
(***************************************************************************)
\* StepValue: a tensor that is fully available (Const), or what one step
\* brings of a stream: a chunk, or nothing yet.
StepConst(v) == [kind |-> "Const", chunk |-> Some(v)]

StepStream(chunk) == [kind |-> "Stream", chunk |-> chunk]

\* StepValue::into_value: the tensor that the step value carries, if any.
IntoValue(sv) == sv.chunk

\* A slip: the chunk of a stream is held back.
IdentityStepConstOnly(inputs, buffer) ==
    IF Len(inputs) # 1 THEN [kind |-> "Err", out |-> None, buffer |-> buffer]
    ELSE IF inputs[1].kind = "Const"
         THEN [kind |-> "Ok", out |-> Some(IdentityEval(<<inputs[1].chunk.v>>).out),
               buffer |-> buffer]
         ELSE [kind |-> "Ok", out |-> None, buffer |-> buffer]

\* Identity::step on the step values of the inputs and the node's OpBuffer,
\* which it hands back as it got it.
IdentityStep(inputs, buffer) ==
    IF Len(inputs) # 1 THEN [kind |-> "Err", out |-> None, buffer |-> buffer]
    ELSE LET input == IntoValue(inputs[1])
         IN  IF ~input.some THEN [kind |-> "Ok", out |-> None, buffer |-> buffer]
             ELSE [kind |-> "Ok", out |-> Some(IdentityEval(<<input.v>>).out),
                   buffer |-> buffer]

(***************************************************************************)
(* The streaming scenario: an Identity node with some OpBuffer is stepped  *)
(* on one step value after another.                                        *)
(***************************************************************************)
StepValues ==
    {StepConst(v) : v \in TensorsOfShape(<<>>)}
    \cup {StepStream(c) : c \in {None} \cup {Some(v) : v \in TensorsOfShape(<<>>)}}

StepOpen ==
    /\ phase = "init"
    /\ stbuf' \in SeqsUpTo(TensorsOfShape(<<>>), 1)
    /\ phase' = "streaming"
    /\ UNCHANGED <<stin, stout, notStepVars>>

StepRun ==
    /\ phase = "streaming"
    /\ Len(stin) < MaxSteps
    /\ \E sv \in StepValues :
          LET res == IdentityStep(<<sv>>, stbuf)
          IN  /\ stin' = Append(stin, sv)
              /\ stout' = Append(stout, [kind |-> res.kind, out |-> res.out])
              /\ stbuf' = res.buffer
    /\ UNCHANGED <<phase, notStepVars>>

StepNext == StepOpen \/ StepRun

SpecStep == OpsInit /\ [][StepNext]_vars

(***************************************************************************)
(* The ONNX operator registry: src/tfdeploy-onnx/src/ops/mod.rs            *)
(***************************************************************************)
\* pb::NodeProto, as far as the builders read it: the op_type and the
\* `value` attribute (a tensor, if the node has one).
NodeProto(op_type, value) == [op_type |-> op_type, value |-> value]

\* konst: node.get_attr_tensor("value")?, then Const::for_tensor(v).
Konst(node) ==
    IF node.value.some THEN [kind |-> "Ok", op |-> [name |-> "Const", value |-> node.value.v]]
    ELSE [kind |-> "Err", op |-> [error |-> "attribute value not found"]]

\* A builder registered by logic, math or nn: the operator of that kind.
Plain(node) == [kind |-> "Ok", op |-> [name |-> node.op_type]]

\* fn(&NodeProto) -> TfdResult<Box<Op>>
CallBuilder(builder, node) == IF builder = "konst" THEN Konst(node) ELSE Plain(node)

\* OpBuilder::new: "Const", and what logic, math and nn register.
OpBuilderNew ==
    [k \in {"Const", "Not", "Add", "Conv"} |-> IF k = "Const" THEN "konst" ELSE "plain"]

\* ::tfdeploy::ops::unimpl::UnimplementedOp(op_type, format!("{:?}", pb))
UnimplementedOp(op_type, pb) == [name |-> "Unimplemented", op_type |-> op_type, pb |-> pb]

\* A slip: an unknown kind refused.
OpBuilderBuildStrict(reg, pb) ==
    IF pb.op_type \in DOMAIN reg THEN CallBuilder(reg[pb.op_type], pb)
    ELSE [kind |-> "Err", op |-> [error |-> "unknown operator"]]

\* OpBuilder::build
OpBuilderBuild(reg, pb) ==
    IF pb.op_type \in DOMAIN reg THEN CallBuilder(reg[pb.op_type], pb)
    ELSE [kind |-> "Ok", op |-> UnimplementedOp(pb.op_type, pb)]

(***************************************************************************)
(* The registry scenario: a loader builds the operator of one NodeProto    *)
(* after another, of registered and of unknown kinds.                      *)
(***************************************************************************)
OpTypes == {"Const", "Not", "Add", "Conv", "const", "Foo", ""}

NodeProtos ==
    {NodeProto(t, v) : t \in OpTypes,
                       v \in {None} \cup {Some(x) : x \in TensorsOfShape(<<>>)}}

BuildOp ==
    /\ phase = "init"
    /\ Len(protos) < MaxBuilt
    /\ \E pb \in NodeProtos :
          /\ protos' = Append(protos, pb)
          /\ built' = Append(built, OpBuilderBuild(OpBuilderNew, pb))
    /\ UNCHANGED <<phase, notBuilderVars>>

BuilderNext == BuildOp

SpecBuilder == OpsInit /\ [][BuilderNext]_vars

(***************************************************************************)
(* LocalPatch::build: src/src/ops/nn/local_patch.rs                        *)
(***************************************************************************)
\* tfpb::node_def::NodeDef, as far as LocalPatch::build reads it: the
\* attributes data_format and padding (byte strings) and strides (a list of
\* i64), each there or not.
NodeDef(data_format, strides, padding) ==
    [kind |-> "NodeDef", data_format |-> data_format, strides |-> strides,
     padding |-> padding]

\* `a as usize` of an i64: the usize 2^64 * hi + lo (a negative i64 wraps).
AsUsize(a) == [hi |-> IF a < 0 THEN 1 ELSE 0, lo |-> a]

\* LocalPatch::build
LocalPatchBuild(pb) ==
    IF pb.data_format.some /\ pb.data_format.v = "NCHW"
    THEN [kind |-> "Err", out |-> [error |-> "NCHW data_format not implemented"]]
    ELSE IF ~pb.strides.some
    THEN [kind |-> "Err", out |-> [error |-> "expect strides in Conv2D args"]]
    ELSE IF ~pb.padding.some
    THEN [kind |-> "Err", out |-> [error |-> "expect padding in Conv2D args"]]
    ELSE IF pb.padding.v \notin {"VALID", "SAME"}
    THEN [kind |-> "Err", out |-> [error |-> "unsupported Padding"]]
    ELSE [kind |-> "Ok",
          out |-> LocalPatch(IF pb.padding.v = "VALID" THEN "Valid" ELSE "Same",
                             [i \in 1..Len(pb.strides.v) |-> AsUsize(pb.strides.v[i])])]

(***************************************************************************)
(* The NodeDef scenario: LocalPatch::build meets a node with any of the    *)
(* three attributes there or not, any list of strides (negative ones       *)
(* too), and padding and data_format strings of any spelling.              *)
(***************************************************************************)
NodeDefs ==
    {NodeDef(f, s, p) :
        f \in {None} \cup {Some(x) : x \in {"NHWC", "NCHW", "nchw"}},
        s \in {None} \cup {Some(x) : x \in SeqsUpTo((-1)..MaxStride, MaxStridesLen)},
        p \in {None} \cup {Some(x) : x \in {"VALID", "SAME", "valid", "EXPLICIT", ""}}}

NodeDefBuild ==
    /\ phase = "init"
    /\ ndef' \in NodeDefs
    /\ lres' = LocalPatchBuild(ndef')
    /\ phase' = "node_built"
    /\ UNCHANGED <<notDefVars>>

NodeDefNext == NodeDefBuild

SpecNodeDef == OpsInit /\ [][NodeDefNext]_vars

(***************************************************************************)
(* The output extents of both generations of operators: the legacy         *)
(* geometry of Conv2D::eval next to the shape inference of Conv.           *)
(***************************************************************************)
ExtentsNext == LocalBuild \/ LocalGeometry \/ ConvBuild \/ ConvInfer

SpecExtents == OpsInit /\ [][ExtentsNext]_vars

(***************************************************************************)
(* Analysis next to evaluation, for both operators built on Patch: MaxPool *)
(* and Conv.                                                               *)
(***************************************************************************)
ShapesNext == PoolBuild \/ PoolInfer \/ PoolRun \/ ConvBuild \/ ConvInfer \/ ConvRun

SpecShapes == OpsInit /\ [][ShapesNext]_vars

(***************************************************************************)
(* Both max-pools: the legacy MaxPool over a LocalPatch next to the MaxPool *)
(* over a Patch.                                                           *)
(***************************************************************************)
MaxPoolsNext == LocalBuild \/ LocalMaxPool \/ PoolBuild \/ PoolInfer \/ PoolRun

SpecMaxPools == OpsInit /\ [][MaxPoolsNext]_vars

(***************************************************************************)
(* Properties of the constructed graph.                                    *)
(***************************************************************************)
Built == phase = "built"

\* Some node of ns lists outlet o among its inputs.
Consumed(ns, o) ==
    \E i \in 1..Len(ns) : \E k \in 1..Len(ns[i].inputs) : ns[i].inputs[k] = o

\* The positions (1-based) of the Sinks of ns whose input list is exactly <<o>>.
SinksOf(ns, o) ==
    {j \in 1..Len(ns) : ns[j].op_name = "Sink" /\ ns[j].inputs = <<o>>}

\* The positions (1-based) of the nodes RawModel::new appended.
Appended == (Len(nodes) + 1)..Len(model.nodes)

\* The outlets an operator produces: one per declared output slot
\* ("multi-output ops declare extra slots at build time").
Produced(n) == {OutletId(n.id, s) : s \in 0..(n.nout - 1)}

\* C1: after RawModel::new, every outlet (n, 0) of a non-Sink input node that
\* no input list references has exactly one Sink whose input list is exactly
\* that outlet, and no Sink is appended for an outlet some node consumes.
C1_SinkPerUnconsumedOutlet ==
    Built =>
        /\ \A i \in 1..Len(nodes) :
              (nodes[i].op_name # "Sink"
                 /\ ~Consumed(nodes, OutletId(nodes[i].id, 0)))
              => Cardinality(SinksOf(model.nodes, OutletId(nodes[i].id, 0))) = 1
        /\ \A j \in Appended :
              \A k \in 1..Len(model.nodes[j].inputs) :
                 ~Consumed(nodes, model.nodes[j].inputs[k])

\* C1 witness: a built model where one outlet was unconsumed (and got its
\* Sink) while another outlet was consumed (and got none).
C1_Witness ==
    /\ Built
    /\ Len(nodes) = 3
    /\ \E i \in 1..Len(nodes) :
          /\ nodes[i].op_name # "Sink"
          /\ ~Consumed(nodes, OutletId(nodes[i].id, 0))
          /\ \E j \in Appended :
                model.nodes[j].inputs = <<OutletId(nodes[i].id, 0)>>
    /\ \E i \in 1..Len(nodes) :
          /\ nodes[i].op_name # "Sink"
          /\ Consumed(nodes, OutletId(nodes[i].id, 0))

\* C2: the input ids equal the vector positions (the loader's invariant), and
\* in the constructed model every node, appended Sinks included, has id equal
\* to its position in nodes().
C2_IdsDense ==
    Built =>
        ((\A i \in 1..Len(nodes) : nodes[i].id = i - 1)
           => \A j \in 1..Len(model.nodes) : model.nodes[j].id = j - 1)

\* C2 witness: a built model with at least two appended Sinks.
C2_Witness ==
    /\ Built
    /\ \A i \in 1..Len(nodes) : nodes[i].id = i - 1
    /\ Len(model.nodes) >= Len(nodes) + 2
    /\ Len(nodes) >= 2

\* C3 (as claimed): names are unique and node_by_name(n.name) succeeds and
\* returns the node with id n.id for every node of the constructed model,
\* the appended "Sink-<id>" nodes included.
C3_NameIndexConsistent ==
    Built =>
        /\ \A i, j \in 1..Len(model.nodes) :
              model.nodes[i].name = model.nodes[j].name => i = j
        /\ \A j \in 1..Len(model.nodes) :
              /\ NodeByName(model, model.nodes[j].name).ok
              /\ NodeByName(model, model.nodes[j].name).node.id = model.nodes[j].id

\* C4 (as claimed): after RawModel::new every outlet produced by a non-Sink
\* node, slots >= 1 of multi-output operators included, has a consumer.
C4_EveryOutletConsumed ==
    Built =>
        \A i \in 1..Len(nodes) :
            nodes[i].op_name # "Sink"
            => \A o \in Produced(nodes[i]) : Consumed(model.nodes, o)

\* Some input of ns references a node position that ns does not have.
Dangling(ns) ==
    \E i \in 1..Len(ns) : \E k \in 1..Len(ns[i].inputs) :
        ns[i].inputs[k].node >= Len(ns)

\* C5 (as claimed): construction fails when an input references a node index
\* that does not exist, so no model is built from such a list and no built
\* model has an inlet referencing a non-existent node.
C5_NoDanglingInputBuilt ==
    Built => (~Dangling(nodes) /\ ~Dangling(model.nodes))

(***************************************************************************)
(* Properties of the evaluation order.                                     *)
(***************************************************************************)
\* The positions of the nodes that node n reads.
DirectDeps(ns, n) == {ns[n + 1].inputs[k].node : k \in 1..Len(ns[n + 1].inputs)}

\* The nodes of S and everything they transitively depend on.
RECURSIVE DepClosure(_, _)
DepClosure(ns, S) ==
    LET T == S \cup UNION {DirectDeps(ns, n) : n \in S}
    IN  IF T = S THEN S ELSE DepClosure(ns, T)

\* No node depends, directly or transitively, on itself.
Acyclic(ns) ==
    \A n \in 0..(Len(ns) - 1) : n \notin DepClosure(ns, DirectDeps(ns, n))

\* C6: on an acyclic graph eval_order_for_nodes returns a sequence without
\* repetition that contains every target and everything the targets depend
\* on, with the producer of each input strictly before its consumer.
C6_EvalOrderTopological ==
    (phase = "ordered" /\ Acyclic(nodes)) =>
        /\ order.ok
        /\ \A i, j \in 1..Len(order.order) :
              order.order[i] = order.order[j] => i = j
        /\ DepClosure(nodes, Range(targets)) \subseteq Range(order.order)
        /\ \A i \in 1..Len(order.order) :
              \A m \in DirectDeps(nodes, order.order[i]) :
                 \E j \in 1..(i - 1) : order.order[j] = m

\* C6 witness: an acyclic three-node graph whose last-loaded node is not the
\* last one evaluated, ordered for a single target that needs all of it.
C6_Witness ==
    /\ phase = "ordered"
    /\ Acyclic(nodes)
    /\ Len(nodes) = 3
    /\ Len(targets) = 1
    /\ Len(order.order) = 3
    /\ order.order[3] # 2
    /\ \E n \in 0..2 : Cardinality(DirectDeps(nodes, n)) = 2

(***************************************************************************)
(* Properties of Pack.                                                     *)
(***************************************************************************)
\* The shape shared by the inputs, their number, and their supertype.
PackShape == pinputs[1].shape
PackK == Len(pinputs)
PackDt == SuperTypeFor([i \in 1..Len(pinputs) |-> pinputs[i].dt])

\* The indices of an array of the given shape.
Indices(shape) ==
    {idx \in [1..Len(shape) -> 0..(MaxDim + MaxK)] :
        \A d \in 1..Len(shape) : idx[d] < shape[d]}

\* The shape s with a new axis of size k at position axis.
PackedShape(s, axis, k) == SubSeq(s, 1, axis) \o <<k>> \o SubSeq(s, axis + 1, Len(s))

\* Slice j of tensor x along axis, that axis dropped.
Slice(x, axis, j) ==
    LET shape == RemoveAt(x.shape, axis)
    IN  Tensor(x.dt, shape,
               [o \in 1..Prod(shape) |->
                   At(x, InsertAt(Unravel(shape, o - 1), axis, j))])

\* C7 (as claimed): inference on n inputs of one fully known shape s of rank r
\* with axis <= r determines the whole output shape: rank r + 1, s[d] for
\* d < axis, n at axis, and s[d] at d + 1 for every axis <= d < r.
C7_PackInferWholeShape ==
    (phase = "analysed" /\ pack.axis <= Len(PackShape)) =>
        /\ pinf.kind = "Ok"
        /\ Len(pinf.shape) = Len(PackShape) + 1
        /\ \A d \in 0..(pack.axis - 1) : pinf.shape[d + 1] = DimOnly(PackShape[d + 1])
        /\ pinf.shape[pack.axis + 1] = DimOnly(pack.n)
        /\ \A d \in pack.axis..(Len(PackShape) - 1) :
              pinf.shape[d + 2] = DimOnly(PackShape[d + 1])

\* The result of eval is one tensor of shape s[0..axis] ++ [k] ++ s[axis..]
\* whose element at (i_0.., j, i_axis..) is x_j[i_0..].
PackedRight ==
    /\ pres.kind = "Ok"
    /\ Len(pres.out) = 1
    /\ pres.out[1].shape = PackedShape(PackShape, pack.axis, PackK)
    /\ Len(pres.out[1].data) = Prod(pres.out[1].shape)
    /\ \A j \in 1..PackK : \A idx \in Indices(PackShape) :
          At(pres.out[1], InsertAt(idx, pack.axis, j - 1)) = At(pinputs[j], idx)

SplitsBack ==
    /\ pres.kind = "Ok"
    /\ pres.out[1].shape[pack.axis + 1] = PackK
    /\ \A j \in 1..PackK : Slice(pres.out[1], pack.axis, j - 1) = pinputs[j]

Measured == phase = "measured"

\* Conv's inference succeeded and knows the whole shapes of input and kernel.
ConvAnalysed ==
    /\ phase \in {"conv_analysed", "conv_evaluated"}
    /\ cinf.kind = "Ok"
    /\ ShapeKnown(cinf.inputs[1])
    /\ ShapeKnown(cinf.inputs[2])

ConvFmt == IF conv.data_is_nhwc THEN "NHWC" ELSE "NCHW"

ConvRank == Len(cinf.inputs[1].dims) - 2

\* Per spatial axis: the input extent, the kernel extent, the stride, the
\* dilation and the inferred output extent.
ConvInHw == HwDims(ConvFmt, ConcreteShape(cinf.inputs[1]))

ConvKernelHw ==
    SubSeq(ConcreteShape(cinf.inputs[2]), SpatialKernelDim(conv) + 1,
           SpatialKernelDim(conv) + ConvRank)

ConvStrides == UnwrapOr(conv.strides, Ones(ConvRank))

ConvDilations == UnwrapOr(conv.dilations, Ones(ConvRank))

ConvOutHw == HwDims(ConvFmt, ConcreteShape(cinf.output))

\* The inference gave the output the rank of the input and every dimension.
ConvOutputKnown ==
    /\ ShapeKnown(cinf.output)
    /\ Len(cinf.output.dims) = Len(cinf.inputs[1].dims)

CeilDiv(a, b) == (a + b - 1) \div b

\* The padding before and after that Conv's patch computes, per spatial axis.
ConvGeo == ConvPatch(conv, ConcreteShape(cinf.inputs[1]), ConcreteShape(cinf.inputs[2])).geo

TotalV == SameTotal(lshape[2], lfilter[1], lp.strides[2], "release").out

TotalH == SameTotal(lshape[3], lfilter[2], lp.strides[2], "release").out

\* C13: under Same padding, padding_before = floor(total / 2) and
\* padding_after = total - padding_before on both axes (top/bottom and
\* left/right), so that after - before is 0 or 1 and an odd total puts its
\* extra cell after; LocalPatch::pad lays the data out accordingly, the
\* element (b, y, x, d) of the data at (b, top + y, left + x, d).
C13_OddPaddingAppended ==
    /\ (Measured /\ lp.padding = "Same" /\ lgeo.pad.kind = "Ok") =>
           /\ lgeo.pad.top = TotalV \div 2
           /\ lgeo.pad.bottom = TotalV - lgeo.pad.top
           /\ lgeo.pad.left = TotalH \div 2
           /\ lgeo.pad.right = TotalH - lgeo.pad.left
           /\ lgeo.pad.bottom - lgeo.pad.top \in {0, 1}
           /\ lgeo.pad.right - lgeo.pad.left \in {0, 1}
           /\ TotalV % 2 = 1 => lgeo.pad.bottom = lgeo.pad.top + 1
           /\ TotalH % 2 = 1 => lgeo.pad.right = lgeo.pad.left + 1
    /\ (phase = "pooled" /\ lp.padding = "Same" /\ lout.kind = "Ok") =>
           LET padded == Pad(lp, ldata, lfilter, NegInf, "release").out
           IN  /\ padded.shape = <<lshape[1], lshape[2] + TotalV, lshape[3] + TotalH,
                                   lshape[4]>>
               /\ \A o \in 1..Prod(lshape) :
                     LET i == Unravel(lshape, o - 1)
                     IN  At(padded, <<i[1], i[2] + TotalV \div 2, i[3] + TotalH \div 2, i[4]>>)
                           = At(ldata, i)

\* C13 witness: a 2 x 2 filter with stride 1 on a 3 x 3 input: the total is 1
\* on both axes, nothing before, one cell after.
C13_Witness ==
    /\ Measured
    /\ lp.padding = "Same"
    /\ lp.strides[2] = 1
    /\ lfilter = <<2, 2>>
    /\ lshape[2] = 3 /\ lshape[3] = 3
    /\ lgeo.pad = [kind |-> "Ok", left |-> 0, right |-> 1, top |-> 0, bottom |-> 1]

(***************************************************************************)
(* Properties of Conv's inference.                                         *)
(***************************************************************************)
\* C14: the output shape that Conv infers has, at the channel position of the
\* data layout (last axis when data_is_nhwc, axis 1 otherwise), the kernel's
\* output-channel dimension (its last axis when kernel_is_hwio, its axis 0
\* otherwise), and at axis 0 the batch dimension of the input.
C14_OutputChannelsAndBatch ==
    ConvAnalysed =>
        LET ishape == ConcreteShape(cinf.inputs[1])
            kshape == ConcreteShape(cinf.inputs[2])
        IN  /\ ConvOutputKnown
            /\ cinf.output.dims[IF conv.data_is_nhwc THEN Len(ishape) ELSE 2]
                  = DimOnly(kshape[IF conv.kernel_is_hwio THEN Len(kshape) ELSE 1])
            /\ cinf.output.dims[1] = DimOnly(ishape[1])

\* C14 witness: NCHW input [1, 1, 2, 1] and oihw kernel [2, 1, 1, 1] give the
\* output [1, 2, 2, 1].
C14_Witness ==
    /\ ConvAnalysed
    /\ ~conv.data_is_nhwc /\ ~conv.kernel_is_hwio
    /\ ConcreteShape(cinf.inputs[1]) = <<1, 1, 2, 1>>
    /\ ConcreteShape(cinf.inputs[2]) = <<2, 1, 1, 1>>
    /\ ShapeKnown(cinf.output)
    /\ ConcreteShape(cinf.output) = <<1, 2, 2, 1>>

\* The analysis ran on facts that know the ranks of input and kernel.
ConvRanksKnown ==
    /\ phase \in {"conv_analysed", "conv_evaluated"}
    /\ ~cfacts[1].open
    /\ ~cfacts[2].open

\* The positions (1-based) of the input's channel dimension and of the kernel's
\* input-channel dimension.
InputCPos == IF conv.data_is_nhwc THEN Len(cfacts[1].dims) ELSE 2

FilterIPos == IF conv.kernel_is_hwio THEN Len(cfacts[2].dims) - 1 ELSE 2

\* C15: once the ranks of input and kernel are known, Conv's inference unifies
\* the input's channel dimension and the kernel's input-channel dimension in
\* both directions: when the analysis succeeds the two are the same, and are
\* the value that either side knew; when both sides knew different values
\* the analysis fails and gives no output fact.
C15_ChannelsUnified ==
    ConvRanksKnown =>
        LET input_c == cfacts[1].dims[InputCPos]
            filter_i == cfacts[2].dims[FilterIPos]
        IN  /\ (~input_c.any /\ ~filter_i.any /\ input_c # filter_i) =>
                   (cinf.kind = "Fail" /\ cinf.output = AnyFact)
            /\ cinf.kind = "Ok" =>
                   /\ cinf.inputs[1].dims[InputCPos] = cinf.inputs[2].dims[FilterIPos]
                   /\ ~input_c.any => cinf.inputs[2].dims[FilterIPos] = input_c
                   /\ ~filter_i.any => cinf.inputs[1].dims[InputCPos] = filter_i

\* C15 witness: the kernel knows its 2 input channels, the NHWC input does not
\* know its channels, and the analysis gives the input 2 channels.
C15_Witness ==
    /\ ConvRanksKnown
    /\ conv.data_is_nhwc
    /\ cfacts[1].dims[InputCPos] = DimAny
    /\ cfacts[2].dims[FilterIPos] = DimOnly(2)
    /\ cinf.kind = "Ok"
    /\ cinf.inputs[1].dims[InputCPos] = DimOnly(2)

(***************************************************************************)
(* Properties of analysis against evaluation.                              *)
(***************************************************************************)
\* Conv was analysed with success on fully known shapes, then evaluated.
ConvEvaluated == phase = "conv_evaluated" /\ cinf.kind = "Ok"

\* MaxPool was analysed with success on a fully known shape, then evaluated.
PoolEvaluated == phase = "pool_evaluated" /\ mpinf.kind = "Ok"

\* Every dimension that MaxPool's inference gave the output is the dimension
\* of the tensor that eval returned.
PoolDimsAgree ==
    /\ mpres.kind = "Ok"
    /\ Len(mpinf.shape) = Len(mpres.out[1].shape)
    /\ \A a \in 1..Len(mpinf.shape) : mpinf.shape[a] = DimOnly(mpres.out[1].shape[a])

\* The output shape that Conv's inference gave is the shape of the tensor
\* that eval returned.
ConvShapesAgree ==
    /\ cres.kind = "Ok"
    /\ ShapeKnown(cinf.output)
    /\ ConcreteShape(cinf.output) = cres.out[1].shape

\* C16 (as claimed): for Conv and MaxPool, whenever inference succeeds on fully
\* known input shapes, the shape of the tensor that eval returns on inputs of
\* those shapes is the inferred output shape exactly (its rank and every
\* dimension), for every padding mode, stride and data layout.
C16_EvalShapeIsInferredShape ==
    /\ ConvEvaluated => ConvShapesAgree
    /\ PoolEvaluated => (PoolDimsAgree /\ mpinf.rank = DimOnly(Len(mpres.out[1].shape)))

(***************************************************************************)
(* Properties of Conv's evaluation.                                        *)
(***************************************************************************)
\* Conv was evaluated on an input and a kernel, without bias.
ConvRanNoBias == phase = "conv_evaluated" /\ Len(cinputs) = 2

\* The kernel's spatial extents are all 1, its input and output channels are
\* the input's channels, and kernel[.., i, o] = 1 if i = o else 0.
IdentityKernel ==
    LET input == cinputs[1]
        kernel == cinputs[2]
        r == Len(input.shape) - 2
        c == input.shape[IF conv.data_is_nhwc THEN Len(input.shape) ELSE 2]
        zeros == [a \in 1..r |-> 0]
    IN  /\ kernel.shape = KernelShape(conv.kernel_is_hwio, Ones(r), c, c)
        /\ \A i, o \in 0..(c - 1) :
              At(kernel, KernelIndex(conv, zeros, i, o)) = IF i = o THEN 1 ELSE 0

ZeroKernel == \A p \in DOMAIN cinputs[2].data : cinputs[2].data[p] = 0

Refines(g, f) ==
    /\ f.dt # Unknown => g.dt = f.dt
    /\ ~f.open => (~g.open /\ Len(g.dims) = Len(f.dims))
    /\ Len(g.dims) >= Len(f.dims)
    /\ \A a \in 1..Len(f.dims) : ~f.dims[a].any => g.dims[a] = f.dims[a]

\* C18: Identity::eval returns its input sequence unchanged; Identity's
\* inference requires exactly one input and one output, and when it succeeds
\* the input and the output have one datum type and one shape, which hold
\* all that was known of the input and all that was known of the output (a
\* fact known on the output reaches the input as well), the rank staying
\* unknown when neither side knew it.
C18_Identity ==
    /\ phase = "ident_evaluated" => idres = [kind |-> "Ok", out |-> idin]
    /\ phase = "ident_analysed" =>
          /\ (Len(idfacts.inputs) # 1 \/ Len(idfacts.outputs) # 1) => idinf.kind = "Fail"
          /\ idinf.kind = "Ok" =>
                /\ Len(idinf.inputs) = 1 /\ Len(idinf.outputs) = 1
                /\ idinf.inputs[1] = idinf.outputs[1]
                /\ Refines(idinf.inputs[1], idfacts.inputs[1])
                /\ Refines(idinf.inputs[1], idfacts.outputs[1])
                /\ Refines(idinf.outputs[1], idfacts.inputs[1])
                /\ Refines(idinf.outputs[1], idfacts.outputs[1])
                /\ (idfacts.inputs[1].open /\ idfacts.outputs[1].open) =>
                      idinf.outputs[1].open

\* C18 witness: nothing is known of the input, the output is known to be
\* F32 of shape [2, 1]; the analysis makes the input F32 of shape [2, 1].
C18_Witness ==
    /\ phase = "ident_analysed"
    /\ idfacts.inputs = <<AnyFact>>
    /\ idfacts.outputs = <<FullFact(<<2, 1>>)>>
    /\ idinf.kind = "Ok"
    /\ idinf.inputs = <<FullFact(<<2, 1>>)>>

(***************************************************************************)
(* Properties of the ONNX operator registry.                               *)
(***************************************************************************)
\* The kinds that OpBuilder::new registers.
Registered == DOMAIN OpBuilderNew

\* C19: OpBuilder::build never fails because of an unknown operator kind: for
\* an op_type that is not in the registry it returns Ok with an
\* UnimplementedOp that carries that op_type, and for a registered kind it
\* returns the result of the registered builder, its error included.
C19_BuildNeverFailsOnUnknown ==
    \A i \in 1..Len(protos) :
        /\ Len(built) = Len(protos)
        /\ protos[i].op_type \notin Registered =>
              /\ built[i].kind = "Ok"
              /\ built[i].op.name = "Unimplemented"
              /\ built[i].op.op_type = protos[i].op_type
        /\ protos[i].op_type \in Registered =>
              built[i] = CallBuilder(OpBuilderNew[protos[i].op_type], protos[i])
        /\ (protos[i].op_type = "Const" /\ ~protos[i].value.some) =>
              built[i].kind = "Err"

\* C19 witness: a loader has built "const" (not the registered "Const") into
\* an UnimplementedOp, and then a Const without a value into konst's error.
C19_Witness ==
    /\ Len(protos) = 2
    /\ protos[1].op_type = "const"
    /\ built[1].kind = "Ok"
    /\ built[1].op.name = "Unimplemented"
    /\ built[1].op.op_type = "const"
    /\ protos[2] = NodeProto("Const", None)
    /\ built[2].kind = "Err"

(***************************************************************************)
(* Properties of the max-pools.                                            *)
(***************************************************************************)
\* The elements of the input that the window of an output cell of MaxPool
\* holds, those in the padding left out.
PoolWindow(coords) ==
    LET window == PatchDataIter(MaxPoolPatch(mp, mpinput.shape), mpinput, coords)
    IN  {window[k].v : k \in {j \in DOMAIN window : window[j].some}}

\* The same for the legacy MaxPool: the window of output cell (b, h, w, d) in
\* the coordinates of the unpadded data.
LegacyPoolWindow(coords) ==
    LET pad == Padding(lp, lshape, lfilter, "release")
        reads == {<<coords[1], yx[1] - pad.top, yx[2] - pad.left, coords[4]>> :
                     yx \in LegacyWindow(lp, lfilter, coords[2], coords[3])}
    IN  {At(ldata, r) : r \in {q \in reads : InBounds(lshape, q)}}

\* The legacy MaxPool gives every output cell the maximum of the elements of
\* its window that lie inside the unpadded input.
LegacyMaxPoolIgnoresPadding ==
    (phase = "pooled" /\ lout.kind = "Ok") =>
        \A o \in 1..Prod(lout.out[1].shape) :
            lout.out[1].data[o]
              = MaxOf({NegInf} \cup LegacyPoolWindow(Unravel(lout.out[1].shape, o - 1)))

\* MaxPool does the same.
MaxPoolIgnoresPadding ==
    (phase = "pool_evaluated" /\ mpres.kind = "Ok") =>
        \A o \in 1..Prod(mpres.out[1].shape) :
            mpres.out[1].data[o]
              = MaxOf({NegInf} \cup PoolWindow(Unravel(mpres.out[1].shape, o - 1)))

\* C20 (as claimed): max-pool treats padded entries as minus infinity: every
\* output cell is the maximum of the input elements of its window that lie
\* inside the unpadded input, the padding never changes the result, and a
\* window whose elements are all minus infinity yields minus infinity; in the
\* legacy MaxPool and in MaxPool.
C20_MaxPoolPaddingIsMinusInfinity ==
    LegacyMaxPoolIgnoresPadding /\ MaxPoolIgnoresPadding

(***************************************************************************)
(* Properties of the legacy AvgPool.                                       *)
(***************************************************************************)
\* AvgPool::eval returned a tensor.
Averaged == phase = "averaged" /\ lout.kind = "Ok"

\* The indices, in the unpadded data, of the elements that the window of
\* output cell (b, h, w, d) holds.
LegacyInputReads(coords) ==
    LET pad == Padding(lp, lshape, lfilter, "release")
        reads == {<<coords[1], yx[1] - pad.top, yx[2] - pad.left, coords[4]>> :
                     yx \in LegacyWindow(lp, lfilter, coords[2], coords[3])}
    IN  {q \in reads : InBounds(lshape, q)}

\* The f32 sum of the elements of d at the given indices: NaN as soon as one
\* of them is NaN.
F32Sum(d, reads) ==
    IF \E r \in reads : At(d, r) = NaN THEN NaN
    ELSE SumFn([r \in reads |-> At(d, r)])

\* C21 (as claimed): every output cell of AvgPool is the sum of the elements
\* of its window that lie inside the unpadded input, divided by the number of
\* those elements (a sum that is NaN when one of them is); the padding adds
\* to neither, and the divisor is at least 1 for every output cell.
C21_AvgPoolDividesByUnpadded ==
    Averaged =>
        \A o \in 1..Prod(lout.out[1].shape) :
            LET reads == LegacyInputReads(Unravel(lout.out[1].shape, o - 1))
                cell == lout.out[1].data[o]
            IN  /\ cell.count = Cardinality(reads)
                /\ cell.count >= 1
                /\ cell.sum = F32Sum(ldata, reads)

(***************************************************************************)
(* Properties of LocalPatch::build.                                        *)
(***************************************************************************)
NodeBuilt == phase = "node_built"

\* The node is one that LocalPatch::build is to refuse: data_format "NCHW",
\* no strides, no padding, or a padding other than "VALID" and "SAME".
Refused ==
    \/ (ndef.data_format.some /\ ndef.data_format.v = "NCHW")
    \/ ~ndef.strides.some
    \/ ~ndef.padding.some
    \/ ndef.padding.v \notin {"VALID", "SAME"}

\* The errors of LocalPatch::build: it returns an error and no operator for
\* every node to refuse, and for no other.
BuildRefuses == NodeBuilt => (lres.kind = "Err" <=> Refused)

\* C22 (as claimed): LocalPatch::build returns an error, and no operator,
\* when data_format is "NCHW", when strides is missing, when padding is
\* missing or is neither "VALID" nor "SAME"; in every other case it returns a
\* LocalPatch of NHWC format with the mapped padding and the given strides.
C22_BuildGivenStrides ==
    /\ BuildRefuses
    /\ (NodeBuilt /\ ~Refused) =>
          /\ lres.kind = "Ok"
          /\ lres.out._data_format = "NHWC"
          /\ lres.out.padding = (IF ndef.padding.v = "VALID" THEN "Valid" ELSE "Same")
          /\ Len(lres.out.strides) = Len(ndef.strides.v)
          /\ \A i \in 1..Len(ndef.strides.v) :
                lres.out.strides[i] = [hi |-> 0, lo |-> ndef.strides.v[i]]

(***************************************************************************)
(* Properties of mk_patches.                                               *)
(***************************************************************************)
Patched == phase = "patched"

\* The strides are of the form [1, s, s, 1].
WellFormedStrides(strides) ==
    /\ Len(strides) = 4
    /\ strides[1] = 1
    /\ strides[4] = 1
    /\ strides[2] = strides[3]

\* C23 (as claimed): mk_patches returns the error "strides must be of the
\* form [1, s, s, 1]" for every strides vector that is not of that form
\* (length other than 4, strides[0] != 1, strides[3] != 1 or
\* strides[1] != strides[2]), and proceeds only for vectors of that form.
C23_StridesForm ==
    Patched =>
        (lout.kind = "Err" <=> ~WellFormedStrides(lp.strides))

(***************************************************************************)
(* Properties of Identity::step.                                           *)
(***************************************************************************)
\* Every step so far returned None when its step value carried no tensor,
\* and otherwise Some of the tensor it carried, which is what eval returns.
StepsPassThrough ==
    /\ Len(stout) = Len(stin)
    /\ \A i \in 1..Len(stin) :
          /\ stout[i].kind = "Ok"
          /\ stout[i].out = None <=> ~stin[i].chunk.some
          /\ stin[i].chunk.some =>
                /\ stout[i].out = Some(<<stin[i].chunk.v>>)
                /\ stout[i].out.v = IdentityEval(<<stin[i].chunk.v>>).out

\* C24: over any sequence of streaming steps, Identity::step returns None
\* exactly when its single step value carries no tensor for that step, and
\* otherwise Some of exactly the tensor carried (the result of eval); it
\* never modifies the node's OpBuffer; so the outputs are the input chunks
\* in order, none dropped, duplicated or delayed.
C24_StepPassesThrough ==
    /\ []StepsPassThrough
    /\ [][phase = "streaming" => stbuf' = stbuf]_vars

\* C24 witness: three steps on a node whose OpBuffer holds a tensor: a chunk,
\* nothing, then another chunk; the outputs are the first chunk, None and the
\* second chunk.
C24_Witness ==
    /\ phase = "streaming"
    /\ Len(stbuf) = 1
    /\ Len(stin) = 3
    /\ stin[1].kind = "Stream" /\ stin[1].chunk.some
    /\ stin[2] = StepStream(None)
    /\ stin[3].kind = "Stream" /\ stin[3].chunk.some
    /\ stin[3] # stin[1]
    /\ stout[1].out = Some(<<stin[1].chunk.v>>)
    /\ stout[2].out = None
    /\ stout[3].out = Some(<<stin[3].chunk.v>>)

(***************************************************************************)
(* Properties of the Same padding of LocalPatch.                           *)
(***************************************************************************)
\* max(0, k - r) in whole numbers, for r = stride if in % stride = 0 and
\* in % stride otherwise.
WholeSameTotal(in, k, stride) ==
    LET r == IF in % stride = 0 THEN stride ELSE in % stride
    IN  IF k - r > 0 THEN k - r ELSE 0

\* C26: the total Same padding that LocalPatch::padding computes along an
\* axis is max(0, k - r), r being the stride when it divides the input extent
\* and in % stride otherwise; it is 0, and neither a panic nor a wrapped
\* quantity, when the kernel extent k is smaller than r.
C26_SameTotalClamped ==
    (Measured /\ lp.padding = "Same") =>
        /\ lgeo.pad.kind = "Ok"
        /\ lgeo.pad.top + lgeo.pad.bottom
              = WholeSameTotal(lshape[2], lfilter[1], lp.strides[2])
        /\ lgeo.pad.left + lgeo.pad.right
              = WholeSameTotal(lshape[3], lfilter[2], lp.strides[2])

(***************************************************************************)
(* Properties of the indices read by the legacy loops.                     *)
(***************************************************************************)
\* One of the legacy loops ran: MaxPool::eval, AvgPool::eval or mk_patches.
LegacyRan == phase \in {"pooled", "averaged", "patched"}

\* The height and width of the data that met the LocalPatch: NHWC for the
\* geometry and the pooling operators, HWC for mk_patches.
LegacyInHw ==
    IF phase = "patched" THEN <<lshape[1], lshape[2]>> ELSE <<lshape[2], lshape[3]>>

\* The strides are four, the same on both axes.
EqualStrides == Len(lp.strides) = 4 /\ lp.strides[2] = lp.strides[3]

\* No read of the loop fell outside the array it read.
ReadsInside == lout.kind # "Panic" \/ lout.out # "index out of bounds"

\* C25: for Same padding with both kernel extents k >= the stride s and equal
\* strides on both axes, in + pad_before + pad_after = (out - 1) * s + k with
\* out = ceil(in / s), and every index read by the legacy MaxPool, AvgPool and
\* mk_patches loops lies inside the padded array; for Valid padding with
\* in >= k on both axes every index read lies inside the unpadded input.
C25_ReadsInsideArray ==
    /\ (/\ Measured
        /\ lp.padding = "Same"
        /\ EqualStrides
        /\ lfilter[1] >= lp.strides[2]
        /\ lfilter[2] >= lp.strides[2]) =>
           /\ lgeo.pad.kind = "Ok"
           /\ lgeo.dim.kind = "Ok"
           /\ lgeo.dim.rows = CeilDiv(lshape[2], lp.strides[2])
           /\ lgeo.dim.cols = CeilDiv(lshape[3], lp.strides[2])
           /\ lshape[2] + lgeo.pad.top + lgeo.pad.bottom
                 = (lgeo.dim.rows - 1) * lp.strides[2] + lfilter[1]
           /\ lshape[3] + lgeo.pad.left + lgeo.pad.right
                 = (lgeo.dim.cols - 1) * lp.strides[2] + lfilter[2]
    /\ (/\ LegacyRan
        /\ lp.padding = "Same"
        /\ EqualStrides
        /\ lfilter[1] >= lp.strides[2]
        /\ lfilter[2] >= lp.strides[2]) => ReadsInside
    /\ (/\ LegacyRan
        /\ lp.padding = "Valid"
        /\ LegacyInHw[1] >= lfilter[1]
        /\ LegacyInHw[2] >= lfilter[2]) => ReadsInside

(***************************************************************************)
(* Properties of RawModel::new as a function of its node list.             *)
(***************************************************************************)
\* C27: graph construction is deterministic: any two calls of RawModel::new
\* on the same node list return the same node vector (the appended Sinks have
\* the same ids, names and input outlets), also when two or more outlets are
\* unconsumed. The constructed model is compared with what every other call
\* on the same list can return.
C27_ConstructionDeterministic ==
    Built =>
        \A ord \in Perms(Missing(nodes)) :
            RawModelNew(nodes, index, ord).nodes = model.nodes

\* C28: RawModel::new only appends: the first N nodes of the model are the N
\* input nodes in their order with id, name, op_name and inputs unchanged,
\* and every node at an index >= N is a Sink with exactly one input, which
\* references a node with index < N.
C28_OnlyAppends ==
    Built =>
        /\ Len(model.nodes) >= Len(nodes)
        /\ \A i \in 1..Len(nodes) :
              /\ model.nodes[i].id = nodes[i].id
              /\ model.nodes[i].name = nodes[i].name
              /\ model.nodes[i].op_name = nodes[i].op_name
              /\ model.nodes[i].inputs = nodes[i].inputs
        /\ \A j \in Appended :
              /\ model.nodes[j].op_name = "Sink"
              /\ Len(model.nodes[j].inputs) = 1
              /\ model.nodes[j].inputs[1].node \in 0..(Len(nodes) - 1)

\* C28 witness: a model built from three nodes, one of them with two inputs,
\* to which RawModel::new appended two Sinks.
C28_Witness ==
    /\ Built
    /\ Len(nodes) = 3
    /\ \E i \in 1..Len(nodes) : Len(nodes[i].inputs) = 2
    /\ Len(model.nodes) = 5
    /\ model.nodes[4].op_name = "Sink"
    /\ model.nodes[5].op_name = "Sink"
    /\ SubSeq(model.nodes, 1, 3) = nodes

====
